---- MODULE Spec2Model ----
(***************************************************************************)
(* State-machine model of the study modes of the flashcard application:    *)
(*   - the Write-mode answer grader (trim, lowercase, Levenshtein          *)
(*     distance with a length-dependent threshold),                        *)
(*   - the Write-mode two-pool scheduler (remainingCards /                 *)
(*     incorrectlyAnswered) with its delayed nextCard timers,              *)
(*   - the Learn-mode three-pool scheduler (unseen / learning / known)     *)
(*     with its option fetch,                                              *)
(*   - the Test and Match modes, generateMcqOptions, the CreateSet editor  *)
(*     with its AI generator, and the App library with its folder import.  *)
(* Strings are sequences of one-character strings.  Cards are the          *)
(* integers 1..NumCards (a card's id); 0 stands for JavaScript null.       *)
(***************************************************************************)
EXTENDS Integers, Sequences, FiniteSets, Bags, TLC

\* ------------------------------------------------------------------ bounds
NumCards == 2        \* cards of the active study set
MaxOverlaps == 1     \* answers submitted while an earlier nextCard timer is still pending
MaxFetches == 2      \* fetchOptions calls in flight
MaxLen == 2          \* length of the enumerated raw answer / term strings
MaxTime == 3         \* last reading of Date.now() in a Match run
MaxPending == 1      \* pending 500 ms timeouts of mismatched Match clicks
MaxSetupCards == 7   \* cards of the largest snapshot given to setupGame
MaxTerms == 4        \* length of the longest allTerms list given to generateMcqOptions
MaxEditorCards == 3  \* cards in the CreateSet editor
MaxRequests == 2     \* generateFlashcards calls in flight
MaxSets == 2         \* study sets in the library
MaxBatch == 2        \* files of one folder selection
MaxImports == 1      \* handleFilesSelected calls in flight
MaxStudyOverlaps == 0 \* the same, in the runs with mode changes
MaxStudyFetches == 1 \* fetchOptions calls in flight in the runs with mode changes
MaxRoundCards == 3   \* cards of the Write session in which a round is followed
MaxTestCards == 5    \* cards of the largest snapshot given to the Test question builder
MaxIndexUpdates == 2 \* pending 150 ms index updates of FlashcardsMode

\* --------------------------------------------------------------- constants
Null == 0
ShortDelay == 1200
LongDelay == 2500
LongWordLength == 7
ShortThreshold == 1
LongThreshold == 2
PAIR_COUNT == 6
NoTime == -1         \* null in a number | null state of MatchMode
NaN == -1            \* the number NaN in FlashcardsMode's currentIndex

\* ---------------------------------------------------------- sequence tools
Range(s) == {s[i] : i \in 1..Len(s)}

RECURSIVE Perms(_)
\* every order that shuffleArray can return for the array s
Perms(s) ==
  IF Len(s) = 0 THEN {<<>>}
  ELSE UNION {{<<s[i]>> \o p :
                 p \in Perms([j \in 1..(Len(s) - 1) |-> IF j < i THEN s[j] ELSE s[j + 1]])} :
              i \in 1..Len(s)}

shuffleArray(s) == Perms(s)

\* q[0] || null
FirstOrNull(q) == IF Len(q) = 0 THEN Null ELSE q[1]

\* array.filter(c => c.id !== id)
Without(s, c) == SelectSeq(s, LAMBDA x : x # c)

\* ------------------------------------------------------------------ strings
WhiteSpace == {" "}

\* String.prototype.toLowerCase on one character of the model's alphabet
LowerChar(c) ==
  CASE c = "A" -> "a"
    [] c = "B" -> "b"
    [] c = "R" -> "r"
    [] OTHER -> c

toLowerCase(s) == [i \in 1..Len(s) |-> LowerChar(s[i])]

RECURSIVE TrimLeft(_)
TrimLeft(s) ==
  IF Len(s) > 0 /\ s[1] \in WhiteSpace THEN TrimLeft(Tail(s)) ELSE s

RECURSIVE TrimRight(_)
TrimRight(s) ==
  IF Len(s) > 0 /\ s[Len(s)] \in WhiteSpace
  THEN TrimRight(SubSeq(s, 1, Len(s) - 1))
  ELSE s

\* String.prototype.trim
trim(s) == TrimRight(TrimLeft(s))

NormalizeKeepsCase(s) == trim(s)
\* inputValue.trim().toLowerCase()
Normalize(s) == toLowerCase(trim(s))

Min2(x, y) == IF x <= y THEN x ELSE y
Min3(x, y, z) == Min2(x, Min2(y, z))

SubstitutionCostAlwaysOne(x, y) == 1
SubstitutionCostZero(x, y) == 0
\* a[i - 1] === b[j - 1] ? 0 : 1
SubstitutionCost(x, y) == IF x = y THEN 0 ELSE 1

RECURSIVE LevCells(_, _, _, _, _)
\* the inner loop over i of row j; acc holds matrix[j][0..Len(acc)-1],
\* prev holds the whole row matrix[j-1]
LevCells(a, b, j, prev, acc) ==
  LET i == Len(acc) IN
  IF i > Len(a) THEN acc
  ELSE LevCells(a, b, j, prev,
                Append(acc, Min3(acc[i] + 1,
                                 prev[i + 1] + 1,
                                 prev[i] + SubstitutionCost(a[i], b[j]))))

RECURSIVE LevRows(_, _, _, _)
\* the outer loop over j; returns the last row matrix[Len(b)]
LevRows(a, b, j, prev) ==
  IF j > Len(b) THEN prev
  ELSE LevRows(a, b, j + 1, LevCells(a, b, j, prev, <<j>>))

calculateLevenshteinDistance(a, b) ==
  IF Len(a) = 0 THEN Len(b)
  ELSE IF Len(b) = 0 THEN Len(a)
  ELSE LevRows(a, b, 1, [i \in 1..(Len(a) + 1) |-> i - 1])[Len(a) + 1]

ThresholdFromSeven(correctAnswer) ==
  IF Len(correctAnswer) >= LongWordLength THEN LongThreshold ELSE ShortThreshold
\* correctAnswer.length > 7 ? 2 : 1
Threshold(correctAnswer) ==
  IF Len(correctAnswer) > LongWordLength THEN LongThreshold ELSE ShortThreshold

\* the value of isCorrect that handleAnswerSubmit computes
IsCorrect(input, term) ==
  LET userAnswer == Normalize(input)
      correctAnswer == Normalize(term)
  IN  \/ userAnswer = correctAnswer
      \/ calculateLevenshteinDistance(userAnswer, correctAnswer) <= Threshold(correctAnswer)

\* -------------------------------------------------------------------- cards
\* activeSet.cards, in the order of the set
AllCards == [i \in 1..NumCards |-> i]

TermLetters == <<"a", "b", "c", "d", "e", "f">>
\* card.term: three-letter terms, pairwise at edit distance 3
Term(c) == <<TermLetters[c], TermLetters[c], TermLetters[c]>>

\* the strings the user types into the Write-mode input
Inputs == {<<>>, <<" ">>} \cup {Term(c) : c \in 1..NumCards}

\* the raw strings the grader is exercised on
Alphabet == {"a", "b", "A", " "}
RECURSIVE StringsUpTo(_)
StringsUpTo(n) ==
  IF n = 0 THEN {<<>>}
  ELSE LET shorter == StringsUpTo(n - 1)
       IN  shorter \cup {Append(s, c) : s \in shorter, c \in Alphabet}
ShortStrings == StringsUpTo(MaxLen)
\* longer words: terms of 7 and of 8 characters with answers 0 to 3 edits away
ReceiveWords ==
  { <<"r","e","c","e","i","v","e">>, <<"r","e","c","i","e","v","e">>,
    <<"d","e","c","e","i","v","e">>, <<"R","e","c","e","i","v","e"," ">> }
AbWords ==
  { <<"a","b","a","b","a","b","a">>, <<"a","b","a","b","a","b","b">>,
    <<"a","b","a","b","a","a","b">>, <<" ","A","B","A","B","A","B","A"," ">>,
    <<"a","b","a","b","a","b","a","b">>, <<"A","B","A","B","A","B","A","B">>,
    <<"a","b","a","b","a","b","b","a">>, <<"a","b","a","b","b","b","b","a">>,
    <<"a","b","a","b","a","b">>, <<"a","b","a","b","a","b","a","b","a","b">> }
\* the (answer, term) pairs a grader run starts from
GradePairs ==
  (ShortStrings \X ShortStrings) \cup (ReceiveWords \X ReceiveWords) \cup (AbWords \X AbWords)

VARIABLES
  starred,              \* ids of the cards with isStarred (App.activeSet)
  cardFilter,           \* App.cardFilter: "all" or "starred"
  currentMode,          \* App.currentMode: the study mode that is mounted
  remainingCards,       \* WriteMode state
  incorrectlyAnswered,
  correctlyAnswered,
  currentCard,
  inputValue,
  answerState,
  timers,               \* pending setTimeout(nextCard, delay) callbacks, oldest first
  overlaps,             \* answers submitted so far with a timer pending
  missedEver,           \* history: cards graded incorrect since the session was seeded
  unseen,               \* LearnMode state
  learning,
  known,
  learnCurrentCard,     \* LearnMode's currentCard
  options,
  isLoadingOptions,
  selectedAnswer,       \* <<>> for null, <<option>> once an option is selected
  isPostAnswer,
  fetches,              \* bag of the fetchOptions calls awaiting generateMcqOptions
  presented,            \* history: bag of the cards made current since the session was seeded
  gInput,               \* grader run: inputValue
  gTerm,                \* grader run: currentCard.term
  gGraded,              \* grader run: has handleAnswerSubmit graded the answer
  gIsCorrect,           \* grader run: isCorrect
  testTerms,            \* TestMode: card.term of each card of the set, by card id
  questions,            \* TestMode state
  answers,              \* TestMode state: question id -> answer, for the answered ones
  isSubmitted,          \* TestMode state
  setupCards,           \* setupGame run: the cards prop of MatchMode
  gridItems,            \* MatchMode state: the tiles, as a bag (their order is only rendered)
  selectedItem,         \* <<>> for null, else the tile <<cardId, type>>
  matchedIds,
  incorrectSelection,   \* <<>> for null, else the tile whose id is stored
  startTime,
  endTime,
  bestTime,
  isNewRecord,
  savedBestTime,        \* localStorage item 'intellideck-match-best-time'
  now,                  \* Date.now()
  pendingResets,        \* number of pending 500 ms timeouts
  effectDeps,           \* dependency values the completion effect last ran with
  completionRuns,       \* history: runs of the completion handling since setupGame
  staleResets,          \* history: how many of the pending timeouts were scheduled
                        \* before the selection that stands was made (0 without one)
  mcqTerm,              \* generateMcqOptions run: term
  mcqAllTerms,          \* generateMcqOptions run: allTerms
  mcqResolved,          \* generateMcqOptions run: has the promise resolved
  mcqResult,            \* generateMcqOptions run: the array it resolved with
  editorCards,          \* CreateSet state: cards
  isLoading,            \* CreateSet state
  error,                \* CreateSet state: <<>> for null, else <<message>>
  showAiGenerator,      \* CreateSet state
  notes,                \* state of the mounted AiGenerator
  isGenerating,         \* state of the mounted AiGenerator
  requests,             \* pending generateFlashcards calls: of the mounted AiGenerator
                        \* (mounted) and of AiGenerators unmounted since (orphaned)
  title,                \* CreateSet state
  allSets,              \* App state
  activeSet,            \* App state: <<>> for null, else <<set>>
  view,                 \* App state
  imports,              \* handleFilesSelected calls in flight: the bag of their newSets
  selectedFiles,        \* the files of the folder selection of a handleFilesSelected run
  mapCards,             \* generateQuestions map callback run: the cards prop
  mapTerms,             \* generateQuestions map callback run: card.term by card id
  mapCard,              \* generateQuestions map callback run: card (Null: no call)
  mapIndex,             \* generateQuestions map callback run: index
  mapResult,            \* generateQuestions map callback run: <<>>, then <<question>>
  shuffledDeck,         \* FlashcardsMode state shuffledCards
  currentIndex,         \* FlashcardsMode state
  isFlipped,            \* FlashcardsMode state
  indexUpdates          \* pending setTimeout callbacks of handleNext / handlePrev, oldest first

appVars == <<starred, cardFilter, currentMode>>
writeVars == <<remainingCards, incorrectlyAnswered, correctlyAnswered, currentCard,
               inputValue, answerState, timers, overlaps, missedEver>>
learnVars == <<unseen, learning, known, learnCurrentCard, options, isLoadingOptions,
               selectedAnswer, isPostAnswer, fetches, presented>>
gradeVars == <<gInput, gTerm, gGraded, gIsCorrect>>
testVars == <<testTerms, questions, answers, isSubmitted>>
\* the state of the components modelled further down
matchVars == <<setupCards, gridItems, selectedItem, matchedIds, incorrectSelection,
               startTime, endTime, bestTime, isNewRecord, savedBestTime, now,
               pendingResets, effectDeps, completionRuns, staleResets>>
mcqVars == <<mcqTerm, mcqAllTerms, mcqResolved, mcqResult>>
genVars == <<editorCards, isLoading, error, showAiGenerator, notes, isGenerating, requests,
             title>>
libVars == <<allSets, activeSet, view, imports, selectedFiles>>
mapVars == <<mapCards, mapTerms, mapCard, mapIndex, mapResult>>
flashVars == <<shuffledDeck, currentIndex, isFlipped, indexUpdates>>
extraVars == <<mapVars, flashVars>>
tailVars == <<mcqVars, genVars, libVars, extraVars>>
laterVars == <<testVars, matchVars, tailVars>>
vars == <<appVars, writeVars, learnVars, gradeVars, laterVars>>

\* App.filteredCards: the cards prop of the mounted study mode
FilteredCards(filter, stars) ==
  IF filter = "starred" THEN SelectSeq(AllCards, LAMBDA c : c \in stars) ELSE AllCards
cards == FilteredCards(cardFilter, starred)

\* the starred sets a run starts from: the first k cards of the set, k = 0..NumCards
StarredChoices == {1..k : k \in 0..NumCards}

AppInit ==
  /\ starred \in StarredChoices
  /\ cardFilter \in {"all", "starred"}

\* ---------------------------------------------------------------- WriteMode
WriteIdle ==
  /\ remainingCards = <<>>
  /\ incorrectlyAnswered = <<>>
  /\ correctlyAnswered = <<>>
  /\ currentCard = Null
  /\ inputValue = <<>>
  /\ answerState = "unanswered"
  /\ timers = <<>>
  /\ overlaps = 0
  /\ missedEver = {}

LearnIdle ==
  /\ unseen = <<>>
  /\ learning = <<>>
  /\ known = <<>>
  /\ learnCurrentCard = Null
  /\ options = <<>>
  /\ isLoadingOptions = FALSE
  /\ selectedAnswer = <<>>
  /\ isPostAnswer = FALSE
  /\ fetches = EmptyBag
  /\ presented = EmptyBag

GradeIdle ==
  /\ gInput = <<>>
  /\ gTerm = <<>>
  /\ gGraded = FALSE
  /\ gIsCorrect = FALSE

TestIdle ==
  /\ testTerms = <<>>
  /\ questions = <<>>
  /\ answers = <<>>
  /\ isSubmitted = FALSE

MatchIdle ==
  /\ setupCards = <<>>
  /\ gridItems = EmptyBag
  /\ selectedItem = <<>>
  /\ matchedIds = <<>>
  /\ incorrectSelection = <<>>
  /\ startTime = NoTime
  /\ endTime = NoTime
  /\ bestTime = NoTime
  /\ isNewRecord = FALSE
  /\ savedBestTime = NoTime
  /\ now = 1
  /\ pendingResets = 0
  /\ effectDeps = <<>>
  /\ completionRuns = 0
  /\ staleResets = 0

McqIdle ==
  /\ mcqTerm = <<>>
  /\ mcqAllTerms = <<>>
  /\ mcqResolved = FALSE
  /\ mcqResult = <<>>

CreateSetIdle ==
  /\ editorCards = <<>>
  /\ isLoading = FALSE
  /\ error = <<>>
  /\ showAiGenerator = FALSE
  /\ notes = <<>>
  /\ isGenerating = FALSE
  /\ requests = [mounted |-> 0, orphaned |-> 0]
  /\ title = <<>>

\* the library is not part of the run: a study mode is on screen
LibraryIdle ==
  /\ allSets = <<>>
  /\ activeSet = <<>>
  /\ view = "study"
  /\ imports = EmptyBag
  /\ selectedFiles = <<>>

MapIdle ==
  /\ mapCards = <<>>
  /\ mapTerms = <<>>
  /\ mapCard = Null
  /\ mapIndex = 0
  /\ mapResult = <<>>

FlashIdle ==
  /\ shuffledDeck = <<>>
  /\ currentIndex = 0
  /\ isFlipped = FALSE
  /\ indexUpdates = <<>>

ExtraIdle == MapIdle /\ FlashIdle

TailIdle == McqIdle /\ CreateSetIdle /\ LibraryIdle /\ ExtraIdle

LaterIdle == TestIdle /\ MatchIdle /\ TailIdle

WriteSeedFullSet(snapshot) ==
  \E newSessionCards \in shuffleArray(AllCards) :
    /\ remainingCards' = newSessionCards
    /\ currentCard' = FirstOrNull(newSessionCards)
    /\ incorrectlyAnswered' = <<>>
    /\ correctlyAnswered' = <<>>
    /\ inputValue' = <<>>
    /\ answerState' = "unanswered"
    /\ missedEver' = {}
\* the session init effect, run on mount and whenever the cards prop changes
WriteSeed(snapshot) ==
  \E newSessionCards \in shuffleArray(snapshot) :
    /\ remainingCards' = newSessionCards
    /\ currentCard' = FirstOrNull(newSessionCards)
    /\ incorrectlyAnswered' = <<>>
    /\ correctlyAnswered' = <<>>
    /\ inputValue' = <<>>
    /\ answerState' = "unanswered"
    /\ missedEver' = {}

\* WriteMode is mounted
WriteMounted == currentMode = "Write"

WriteInit ==
  /\ AppInit
  /\ currentMode = "Write"
  /\ \E newSessionCards \in shuffleArray(cards) :
       /\ remainingCards = newSessionCards
       /\ currentCard = FirstOrNull(newSessionCards)
  /\ incorrectlyAnswered = <<>>
  /\ correctlyAnswered = <<>>
  /\ inputValue = <<>>
  /\ answerState = "unanswered"
  /\ timers = <<>>
  /\ overlaps = 0
  /\ missedEver = {}
  /\ LearnIdle
  /\ GradeIdle
  /\ LaterIdle

\* the form is rendered: neither the "No cards" nor the "Set Complete!" return is taken
WriteFormShown == WriteMounted /\ Len(cards) # 0 /\ currentCard # Null

\* onChange of the input (disabled once the card is answered)
SetInputValue ==
  /\ WriteFormShown
  /\ answerState = "unanswered"
  /\ \E v \in Inputs : v # inputValue /\ inputValue' = v
  /\ UNCHANGED <<appVars, remainingCards, incorrectlyAnswered, correctlyAnswered,
                 currentCard, answerState, timers, overlaps, missedEver, learnVars, gradeVars, laterVars>>

SubmitAcceptedWithBlank ==
  /\ answerState = "unanswered"
  /\ currentCard # Null
\* the early return of handleAnswerSubmit
SubmitAccepted ==
  /\ answerState = "unanswered"
  /\ currentCard # Null
  /\ trim(inputValue) # <<>>

\* the closure that setTimeout(nextCard, delay) keeps: nextCard of the render in
\* which the answer was submitted reads that render's remainingCards and
\* incorrectlyAnswered
TimerClosure(delay) ==
  [remaining |-> remainingCards, missed |-> incorrectlyAnswered, delay |-> delay]

handleAnswerSubmit ==
  /\ WriteFormShown
  /\ SubmitAccepted
  /\ IF Len(timers) = 0 THEN overlaps' = overlaps
     ELSE overlaps < MaxOverlaps /\ overlaps' = overlaps + 1
  /\ IF IsCorrect(inputValue, Term(currentCard))
     THEN /\ answerState' = "correct"
          /\ correctlyAnswered' = Append(correctlyAnswered, currentCard)
          /\ timers' = Append(timers, TimerClosure(ShortDelay))
          /\ UNCHANGED <<incorrectlyAnswered, missedEver>>
     ELSE /\ answerState' = "incorrect"
          /\ incorrectlyAnswered' = Append(incorrectlyAnswered, currentCard)
          /\ timers' = Append(timers, TimerClosure(LongDelay))
          /\ missedEver' = missedEver \cup {currentCard}
          /\ UNCHANGED correctlyAnswered
  /\ UNCHANGED <<appVars, remainingCards, currentCard, inputValue, learnVars, gradeVars, laterVars>>

\* timer k can be the next to fire: every timer scheduled before it is due later,
\* which needs that one to wait 2500 ms and timer k 1200 ms
CanFire(k) ==
  \A i \in 1..(k - 1) : timers[i].delay = LongDelay /\ timers[k].delay = ShortDelay

RemoveAt(s, k) == [j \in 1..(Len(s) - 1) |-> IF j < k THEN s[j] ELSE s[j + 1]]

\* nextCard, run by a timer with the state of the render that scheduled it
nextCard(remaining, missed) ==
  /\ inputValue' = <<>>
  /\ answerState' = "unanswered"
  /\ IF Len(remaining) > 1
     THEN /\ remainingCards' = Tail(remaining)
          /\ currentCard' = FirstOrNull(Tail(remaining))
          /\ UNCHANGED incorrectlyAnswered
     ELSE \E nextQueue \in shuffleArray(missed), newRemaining \in shuffleArray(missed) :
            /\ remainingCards' = newRemaining
            /\ incorrectlyAnswered' = <<>>
            /\ currentCard' = FirstOrNull(nextQueue)

TimerFires ==
  \E k \in 1..Len(timers) :
    /\ WriteMounted
    /\ CanFire(k)
    /\ nextCard(timers[k].remaining, timers[k].missed)
    /\ timers' = RemoveAt(timers, k)
    /\ UNCHANGED <<appVars, correctlyAnswered, overlaps, missedEver, learnVars, gradeVars, laterVars>>

\* the "Start Over" button of the "Set Complete!" screen
WriteStartOver ==
  /\ WriteMounted
  /\ Len(cards) # 0
  /\ currentCard = Null
  /\ \E newSessionCards \in shuffleArray(cards) :
       /\ remainingCards' = newSessionCards
       /\ currentCard' = FirstOrNull(newSessionCards)
  /\ incorrectlyAnswered' = <<>>
  /\ correctlyAnswered' = <<>>
  /\ missedEver' = {}
  /\ UNCHANGED <<appVars, inputValue, answerState, timers, overlaps, learnVars, gradeVars, laterVars>>

\* App: the "All Cards" / "Starred" buttons; a changed filter gives WriteMode a new
\* cards array, and its init effect re-seeds the session (pending timers stay)
WriteSetCardFilter ==
  \E f \in {"all", "starred"} :
    /\ WriteMounted
    /\ f # cardFilter
    /\ f = "starred" => starred # {}
    /\ cardFilter' = f
    /\ WriteSeed(FilteredCards(f, starred))
    /\ UNCHANGED <<starred, currentMode, timers, overlaps, learnVars, gradeVars, laterVars>>

WriteNext ==
  \/ SetInputValue
  \/ handleAnswerSubmit
  \/ TimerFires
  \/ WriteStartOver
  \/ WriteSetCardFilter

WriteSpec == WriteInit /\ [][WriteNext]_vars

\* ---------------------------------------------------------------- LearnMode
\* allTerms of the render whose cards prop is snapshot
AllTerms(snapshot) == [i \in 1..Len(snapshot) |-> Term(snapshot[i])]

PrefixInclusive(s, n) == SubSeq(s, 1, Min2(n + 1, Len(s)))
\* slice(0, n)
Prefix(s, n) == SubSeq(s, 1, Min2(n, Len(s)))

\* the strings a well-formed AI reply is drawn from
AiWords == {<<"x">>}

\* generateMcqOptions: the lists it can resolve with.  Without an API key, and when
\* the AI call or the parse of its reply fails, the fallback: the terms that differ
\* from term case-insensitively, shuffled, the first 3.  With a well-formed reply
\* (an options array of at least 3 strings), the first 3 options of the reply.
McqFallback(term, allTerms) ==
  {Prefix(sh, 3) :
     sh \in shuffleArray(SelectSeq(allTerms, LAMBDA t : toLowerCase(t) # toLowerCase(term)))}
McqReplies == [1..3 -> AiWords]
generateMcqOptions(term, allTerms) == McqFallback(term, allTerms) \cup McqReplies

FetchedOptionsDistractorsOnly(c, snapshot) ==
  UNION {shuffleArray(distractors) :
           distractors \in generateMcqOptions(Term(c), AllTerms(snapshot))}
\* the options fetchOptions can set for card c under the snapshot it was started with
FetchedOptions(c, snapshot) ==
  UNION {shuffleArray(<<Term(c)>> \o distractors) :
           distractors \in generateMcqOptions(Term(c), AllTerms(snapshot))}

NewFetch(c, snapshot) == [card |-> c, cards |-> snapshot]

RECURSIVE AddFetches(_, _)
AddFetches(bag, started) ==
  IF Len(started) = 0 THEN bag
  ELSE AddFetches(bag (+) SetToBag({Head(started)}), Tail(started))

\* the fetchOptions effect of a commit in which the listed cards (each non-null)
\* became the effect's currentCard, in that order
StartFetches(started) ==
  IF Len(started) = 0
  THEN UNCHANGED <<options, isLoadingOptions, fetches>>
  ELSE /\ BagCardinality(fetches) + Len(started) <= MaxFetches
       /\ fetches' = AddFetches(fetches, started)
       /\ isLoadingOptions' = TRUE
       /\ options' = <<>>

\* the history once card is made current
Presenting(bag, card) == IF card = Null THEN bag ELSE bag (+) SetToBag({card})

\* startNewSession with the shuffled order chosen
SeedLearn(shuffled) ==
  /\ presented' = Presenting(EmptyBag, FirstOrNull(shuffled))
  /\ unseen' = shuffled
  /\ learning' = <<>>
  /\ known' = <<>>
  /\ learnCurrentCard' = FirstOrNull(shuffled)
  /\ selectedAnswer' = <<>>
  /\ isPostAnswer' = FALSE

LearnInit ==
  /\ AppInit
  /\ currentMode = "Learn"
  /\ \E shuffled \in shuffleArray(cards) :
       /\ unseen = shuffled
       /\ learnCurrentCard = FirstOrNull(shuffled)
       /\ presented = Presenting(EmptyBag, FirstOrNull(shuffled))
  /\ learning = <<>>
  /\ known = <<>>
  /\ selectedAnswer = <<>>
  /\ isPostAnswer = FALSE
  /\ options = <<>>
  /\ isLoadingOptions = (learnCurrentCard # Null)
  /\ fetches = IF learnCurrentCard # Null
               THEN SetToBag({NewFetch(learnCurrentCard, cards)}) ELSE EmptyBag
  /\ WriteIdle
  /\ GradeIdle
  /\ LaterIdle

\* the question is rendered: neither the "No cards" nor the results return is taken
LearnMounted == currentMode = "Learn"
LearnQuestionShown == LearnMounted /\ Len(cards) # 0 /\ learnCurrentCard # Null

\* a pending generateMcqOptions settles; fetchOptions sets the options and, in its
\* finally block, ends the loading state
FetchSettles ==
  \E fetch \in BagToSet(fetches) :
    /\ LearnMounted
    /\ fetches' = fetches (-) SetToBag({fetch})
    /\ isLoadingOptions' = FALSE
    /\ \E opts \in FetchedOptions(fetch.card, fetch.cards) : options' = opts
    /\ UNCHANGED <<appVars, writeVars, unseen, learning, known, learnCurrentCard,
                   selectedAnswer, isPostAnswer, presented, gradeVars, laterVars>>

handleAnswerAfterSelection ==
  /\ LearnQuestionShown
  /\ ~isLoadingOptions
  /\ \E answer \in Range(options) : selectedAnswer' = <<answer>>
  /\ isPostAnswer' = TRUE
  /\ UNCHANGED <<appVars, writeVars, unseen, learning, known, learnCurrentCard,
                 options, isLoadingOptions, fetches, presented, gradeVars, laterVars>>
\* a click on an option button
handleAnswer ==
  /\ LearnQuestionShown
  /\ ~isLoadingOptions
  /\ ~isPostAnswer
  /\ \E answer \in Range(options) : selectedAnswer' = <<answer>>
  /\ isPostAnswer' = TRUE
  /\ UNCHANGED <<appVars, writeVars, unseen, learning, known, learnCurrentCard,
                 options, isLoadingOptions, fetches, presented, gradeVars, laterVars>>

LearningAfterByAnswer(pile, card, wasKnown) ==
  IF card \in Range(pile) THEN Without(pile, card)
  ELSE IF wasKnown /\ selectedAnswer = <<Term(card)>> THEN pile ELSE Append(pile, card)
LearningAfterNoRemoval(pile, card, wasKnown) ==
  IF wasKnown THEN pile
  ELSE IF card \in Range(pile) THEN Without(pile, card) ELSE Append(pile, card)
\* the learning pile after the queued updates of handleNextStep: the append made
\* when the card is not known, then, if the card was in the pile, the plain
\* setLearning(newLearning) that replaces it
LearningAfter(pile, card, wasKnown) ==
  IF card \in Range(pile) THEN Without(pile, card)
  ELSE IF wasKnown THEN pile ELSE Append(pile, card)

\* the queues nextQueue can be: it is computed from the learning pile of the
\* render (not from the pile with the current card appended)
NextQueues(pile, card, newUnseen) ==
  LET source == IF card \in Range(pile) THEN Without(pile, card) ELSE pile
  IN  IF Len(source) > 0 THEN shuffleArray(source) ELSE {newUnseen}

\* "Keep learning this" (wasKnown = FALSE) and "I knew this" (wasKnown = TRUE)
handleNextStep ==
  /\ LearnQuestionShown
  /\ isPostAnswer
  /\ \E wasKnown \in BOOLEAN :
       LET newUnseen == Without(unseen, learnCurrentCard) IN
       /\ known' = IF wasKnown THEN Append(known, learnCurrentCard) ELSE known
       /\ learning' = LearningAfter(learning, learnCurrentCard, wasKnown)
       /\ unseen' = newUnseen
       /\ \E next \in {FirstOrNull(nextQueue) :
                         nextQueue \in NextQueues(learning, learnCurrentCard, newUnseen)} :
            /\ learnCurrentCard' = next
            /\ presented' = Presenting(presented, next)
            /\ StartFetches(IF next \notin {Null, learnCurrentCard}
                            THEN <<NewFetch(next, cards)>>
                            ELSE <<>>)
  /\ selectedAnswer' = <<>>
  /\ isPostAnswer' = FALSE
  /\ UNCHANGED <<appVars, writeVars, gradeVars, laterVars>>

\* the "Start Over" button of the results screen
LearnStartOver ==
  /\ LearnMounted
  /\ Len(cards) # 0
  /\ learnCurrentCard = Null
  /\ \E shuffled \in shuffleArray(cards) :
       /\ SeedLearn(shuffled)
       /\ StartFetches(<<NewFetch(shuffled[1], cards)>>)
  /\ UNCHANGED <<appVars, writeVars, gradeVars, laterVars>>

\* App: a changed filter gives LearnMode a new cards array.  The startNewSession
\* effect re-seeds the session; the fetchOptions effect runs in the same commit for
\* the card that was current, and again after the re-render if the current card changed
LearnSetCardFilter ==
  \E f \in {"all", "starred"} :
    /\ LearnMounted
    /\ f # cardFilter
    /\ f = "starred" => starred # {}
    /\ cardFilter' = f
    /\ \E shuffled \in shuffleArray(FilteredCards(f, starred)) :
         /\ SeedLearn(shuffled)
         /\ StartFetches(
              (IF learnCurrentCard # Null
               THEN <<NewFetch(learnCurrentCard, FilteredCards(f, starred))>> ELSE <<>>)
              \o
              (IF FirstOrNull(shuffled) \notin {Null, learnCurrentCard}
               THEN <<NewFetch(FirstOrNull(shuffled), FilteredCards(f, starred))>> ELSE <<>>))
    /\ UNCHANGED <<starred, currentMode, writeVars, gradeVars, laterVars>>

LearnNext ==
  \/ FetchSettles
  \/ handleAnswer
  \/ handleNextStep
  \/ LearnStartOver
  \/ LearnSetCardFilter

LearnSpec == LearnInit /\ [][LearnNext]_vars

\* Learn runs with up to MaxStudyFetches fetchOptions calls in flight
LearnFairNext == LearnNext /\ BagCardinality(fetches') <= MaxStudyFetches

\* one of the pending generateMcqOptions calls has settled: the steps of FetchSettles
PromiseSettles ==
  /\ LearnMounted
  /\ fetches' \in {fetches (-) SetToBag({fetch}) : fetch \in BagToSet(fetches)}

\* every generateMcqOptions promise settles: the AI call returns or throws, and
\* the catch block of generateMcqOptions resolves with the fallback
LearnFairSpec == LearnInit /\ [][LearnFairNext]_vars /\ WF_fetches(PromiseSettles)

\* ------------------------------------------------- App: switching the mode
\* the state of an unmounted WriteMode / LearnMode: the same as before its mount
WriteUnmount ==
  /\ remainingCards' = <<>>
  /\ incorrectlyAnswered' = <<>>
  /\ correctlyAnswered' = <<>>
  /\ currentCard' = Null
  /\ inputValue' = <<>>
  /\ answerState' = "unanswered"
  /\ timers' = <<>>
  /\ overlaps' = 0
  /\ missedEver' = {}

LearnUnmount ==
  /\ unseen' = <<>>
  /\ learning' = <<>>
  /\ known' = <<>>
  /\ learnCurrentCard' = Null
  /\ options' = <<>>
  /\ isLoadingOptions' = FALSE
  /\ selectedAnswer' = <<>>
  /\ isPostAnswer' = FALSE
  /\ fetches' = EmptyBag
  /\ presented' = EmptyBag

\* StudyModeSelector: another mode is selected.  The mounted mode is unmounted (its
\* state is gone, and the state updates of its pending timers and fetches no longer
\* have an effect); the selected mode is mounted and its effects seed a session
SetCurrentMode ==
  \E mode \in {"Write", "Learn"} :
    /\ mode # currentMode
    /\ currentMode' = mode
    /\ IF mode = "Write"
       THEN /\ WriteSeed(cards)
            /\ timers' = <<>>
            /\ overlaps' = 0
            /\ LearnUnmount
       ELSE /\ \E shuffled \in shuffleArray(cards) :
                 /\ SeedLearn(shuffled)
                 /\ options' = <<>>
                 /\ isLoadingOptions' = (FirstOrNull(shuffled) # Null)
                 /\ fetches' = IF FirstOrNull(shuffled) # Null
                               THEN SetToBag({NewFetch(FirstOrNull(shuffled), cards)})
                               ELSE EmptyBag
            /\ WriteUnmount
    /\ UNCHANGED <<starred, cardFilter, gradeVars, laterVars>>

StudyInit == WriteInit \/ LearnInit

\* the runs with mode changes take up to MaxStudyOverlaps answers while a nextCard
\* timer is pending and keep up to MaxStudyFetches fetchOptions calls in flight
StudyNext ==
  \/ WriteNext /\ overlaps' <= MaxStudyOverlaps
  \/ LearnNext /\ BagCardinality(fetches') <= MaxStudyFetches
  \/ SetCurrentMode

StudySpec == StudyInit /\ [][StudyNext]_vars

\* -------------------------------------------------------------- grader runs
\* one submission of handleAnswerSubmit per run, on a raw answer and a raw term
GradeInit ==
  /\ starred = {}
  /\ cardFilter = "all"
  /\ currentMode = "Write"
  /\ WriteIdle
  /\ LearnIdle
  /\ \E pair \in GradePairs : gInput = pair[1] /\ gTerm = pair[2]
  /\ gGraded = FALSE
  /\ gIsCorrect = FALSE
  /\ LaterIdle

\* lines 268-283 of handleAnswerSubmit: the blank answer is turned away, any other
\* answer is graded
GradeAnswer ==
  /\ ~gGraded
  /\ trim(gInput) # <<>>
  /\ gGraded' = TRUE
  /\ gIsCorrect' = IsCorrect(gInput, gTerm)
  /\ UNCHANGED <<appVars, writeVars, learnVars, gInput, gTerm, laterVars>>

GradeNext == GradeAnswer

GradeSpec == GradeInit /\ [][GradeNext]_vars

\* ----------------------------------------------------------------- TestMode
\* the terms of the set in a Test run: pairwise different, or cards 1 and 2
\* carrying the same term
TestTermChoices ==
  { [c \in 1..NumCards |-> Term(c)],
    [c \in 1..NumCards |-> Term(IF c = 2 THEN 1 ELSE c)] }

IsMcIndexInclusive(index, n) == index <= n \div 2
\* index < Math.floor(cards.length / 2), index counted from 0
IsMcIndex(index, n) == index < n \div 2

\* the questions the map callback can return for the card at index of shuffledCards
QuestionsFor(card, index, snapshot, terms) ==
  IF IsMcIndex(index, Len(snapshot))
  THEN { [card |-> card, type |-> "mc", options |-> opts] :
           opts \in UNION { shuffleArray(<<terms[card]>> \o
                                         [i \in 1..Len(wrong) |-> terms[wrong[i]]]) :
                            wrong \in {Prefix(sh, 3) :
                                         sh \in shuffleArray(Without(snapshot, card))} } }
  ELSE { [card |-> card, type |-> "written", options |-> <<>>] }

RECURSIVE MapQuestions(_, _, _, _)
\* shuffledCards.map(...): the lists newQuestions can be, from position index + 1 on
MapQuestions(shuffledCards, index, snapshot, terms) ==
  IF index >= Len(shuffledCards) THEN {<<>>}
  ELSE { <<q>> \o rest :
           q \in QuestionsFor(shuffledCards[index + 1], index, snapshot, terms),
           rest \in MapQuestions(shuffledCards, index + 1, snapshot, terms) }

\* the lists generateQuestions can store in questions
generateQuestions(snapshot, terms) ==
  UNION { shuffleArray(newQuestions) :
            newQuestions \in UNION { MapQuestions(shuffledCards, 0, snapshot, terms) :
                                     shuffledCards \in shuffleArray(snapshot) } }

TestMounted == currentMode = "Test"

TestInit ==
  /\ AppInit
  /\ currentMode = "Test"
  /\ testTerms \in TestTermChoices
  /\ questions \in generateQuestions(cards, testTerms)
  /\ answers = <<>>
  /\ isSubmitted = FALSE
  /\ WriteIdle
  /\ LearnIdle
  /\ GradeIdle
  /\ MatchIdle
  /\ TailIdle

\* what the user can enter for a question: one of its options (radio buttons), or
\* typed text: the term short of its first letter, or a padded upper-case word
TestInputs(term) == {Tail(term), <<" ", "A", "A", "A">>}
AnswerChoices(q) ==
  IF q.type = "mc" THEN Range(q.options) ELSE TestInputs(testTerms[q.card])

handleAnswerChange ==
  \E i \in 1..Len(questions) :
    \E answer \in AnswerChoices(questions[i]) :
      LET questionId == questions[i].card IN
      /\ TestMounted
      /\ ~isSubmitted
      /\ questionId \in DOMAIN answers => answers[questionId] # answer
      /\ answers' = [id \in DOMAIN answers \cup {questionId} |->
                       IF id = questionId THEN answer ELSE answers[id]]
      /\ UNCHANGED <<appVars, writeVars, learnVars, gradeVars, matchVars, tailVars, testTerms, questions,
                     isSubmitted>>

handleSubmit ==
  /\ TestMounted
  /\ ~isSubmitted
  /\ isSubmitted' = TRUE
  /\ UNCHANGED <<appVars, writeVars, learnVars, gradeVars, matchVars, tailVars, testTerms, questions, answers>>

\* the "Retake Test" button of the results screen
RetakeTest ==
  /\ TestMounted
  /\ isSubmitted
  /\ questions' \in shuffleArray(questions)
  /\ answers' = <<>>
  /\ isSubmitted' = FALSE
  /\ UNCHANGED <<appVars, writeVars, learnVars, gradeVars, matchVars, tailVars, testTerms>>

\* App: a changed filter gives TestMode a new cards array and the effect runs
\* generateQuestions again
TestSetCardFilter ==
  \E f \in {"all", "starred"} :
    /\ TestMounted
    /\ f # cardFilter
    /\ f = "starred" => starred # {}
    /\ cardFilter' = f
    /\ questions' \in generateQuestions(FilteredCards(f, starred), testTerms)
    /\ answers' = <<>>
    /\ isSubmitted' = FALSE
    /\ UNCHANGED <<starred, currentMode, writeVars, learnVars, gradeVars, matchVars, tailVars, testTerms>>

TestAnswerCountsTypos(userAnswer, correctAnswer) ==
  calculateLevenshteinDistance(userAnswer, correctAnswer) <= Threshold(correctAnswer)
\* userAnswer === correctAnswer
TestAnswerCounts(userAnswer, correctAnswer) == userAnswer = correctAnswer

RECURSIVE ScoreReduce(_, _)
\* questions.reduce(...) from question i on, with correctCount so far
ScoreReduce(i, correctCount) ==
  IF i > Len(questions) THEN correctCount
  ELSE LET q == questions[i]
           counts == /\ q.card \in DOMAIN answers
                     /\ TestAnswerCounts(toLowerCase(trim(answers[q.card])),
                                         toLowerCase(trim(testTerms[q.card])))
       IN  ScoreReduce(i + 1, IF counts THEN correctCount + 1 ELSE correctCount)

\* the memoized score
score == IF ~isSubmitted THEN 0 ELSE ScoreReduce(1, 0)

TestNext ==
  \/ handleAnswerChange
  \/ handleSubmit
  \/ RetakeTest
  \/ TestSetCardFilter

TestSpec == TestInit /\ [][TestNext]_vars

\* ------------------------------ TestMode: one call of the map callback
\* the terms of the set in a run: pairwise different, or cards 1 and 2 carrying
\* the same term
MapTermChoices(n) ==
  { [c \in 1..n |-> Term(c)],
    [c \in 1..n |-> Term(IF c = 2 THEN 1 ELSE c)] }

\* generateQuestions has been called with a cards prop of up to MaxTestCards
\* cards; shuffledCards.map is about to call its callback with one of the cards
\* and one of the indices (for an empty cards prop it makes no call)
MapInit ==
  /\ AppInit
  /\ currentMode = "Test"
  /\ \E n \in 0..MaxTestCards :
       /\ mapCards = [i \in 1..n |-> i]
       /\ mapTerms \in MapTermChoices(n)
       /\ IF n = 0
          THEN mapCard = Null /\ mapIndex = 0
          ELSE mapCard \in 1..n /\ mapIndex \in 0..(n - 1)
  /\ mapResult = <<>>
  /\ WriteIdle
  /\ LearnIdle
  /\ GradeIdle
  /\ TestIdle
  /\ MatchIdle
  /\ McqIdle
  /\ CreateSetIdle
  /\ LibraryIdle
  /\ FlashIdle

\* the callback returns the question of the card
MapCallback ==
  /\ mapCard # Null
  /\ mapResult = <<>>
  /\ \E q \in QuestionsFor(mapCard, mapIndex, mapCards, mapTerms) : mapResult' = <<q>>
  /\ UNCHANGED <<appVars, writeVars, learnVars, gradeVars, testVars, matchVars, mcqVars,
                 genVars, libVars, flashVars, mapCards, mapTerms, mapCard, mapIndex>>

MapNext == MapCallback

MapSpec == MapInit /\ [][MapNext]_vars

\* ------------------------------------------------------------ FlashcardsMode
FlashMounted == currentMode = "Flashcards"

\* the state after the mount and its shuffleCards effect
FlashInit ==
  /\ AppInit
  /\ currentMode = "Flashcards"
  /\ shuffledDeck \in shuffleArray(cards)
  /\ currentIndex = 0
  /\ isFlipped = FALSE
  /\ indexUpdates = <<>>
  /\ WriteIdle
  /\ LearnIdle
  /\ GradeIdle
  /\ TestIdle
  /\ MatchIdle
  /\ McqIdle
  /\ CreateSetIdle
  /\ LibraryIdle
  /\ MapIdle

\* the effect on [cards, currentIndex] has a reset to make after this render
ClampPending == Len(cards) > 0 /\ currentIndex >= Len(cards)

\* the card is rendered: the "No cards to display" return is not taken
DeckShown == FlashMounted /\ Len(shuffledDeck) # 0

\* handleNext (step 1) and handlePrev (step -1), from the buttons or from the
\* arrow keys (the key handler is registered also when no card is rendered); the
\* callback keeps shuffledCards.length of the render of the request
RequestStep ==
  \E step \in {1, -1} :
    /\ FlashMounted
    /\ ~ClampPending
    /\ Len(indexUpdates) < MaxIndexUpdates
    /\ isFlipped' = FALSE
    /\ indexUpdates' = Append(indexUpdates, [step |-> step, length |-> Len(shuffledDeck)])
    /\ UNCHANGED <<appVars, writeVars, learnVars, gradeVars, testVars, matchVars, mcqVars,
                   genVars, libVars, mapVars, shuffledDeck, currentIndex>>

\* (prev + 1) % length and (prev - 1 + length) % length on JavaScript numbers
SteppedIndex(prev, step, length) ==
  IF prev = NaN \/ length = 0 THEN NaN
  ELSE IF step = 1 THEN (prev + 1) % length
  ELSE (prev - 1 + length) % length

\* the oldest pending callback runs (all are due 150 ms after their request)
IndexUpdateFires ==
  /\ FlashMounted
  /\ ~ClampPending
  /\ indexUpdates # <<>>
  /\ currentIndex' = SteppedIndex(currentIndex, Head(indexUpdates).step,
                                  Head(indexUpdates).length)
  /\ indexUpdates' = Tail(indexUpdates)
  /\ UNCHANGED <<appVars, writeVars, learnVars, gradeVars, testVars, matchVars, mcqVars,
                 genVars, libVars, mapVars, shuffledDeck, isFlipped>>

\* the effect on [cards, currentIndex], run after the render
ClampEffect ==
  /\ FlashMounted
  /\ ClampPending
  /\ currentIndex' = 0
  /\ UNCHANGED <<appVars, writeVars, learnVars, gradeVars, testVars, matchVars, mcqVars,
                 genVars, libVars, mapVars, shuffledDeck, isFlipped, indexUpdates>>

\* shuffleCards on the cards prop snapshot
shuffleCards(snapshot) ==
  /\ shuffledDeck' \in shuffleArray(snapshot)
  /\ currentIndex' = 0
  /\ isFlipped' = FALSE

\* the "Shuffle" button
ShuffleClicked ==
  /\ DeckShown
  /\ ~ClampPending
  /\ shuffleCards(cards)
  /\ UNCHANGED <<appVars, writeVars, learnVars, gradeVars, testVars, matchVars, mcqVars,
                 genVars, libVars, mapVars, indexUpdates>>

\* a click on the card, or the space key
Flip ==
  /\ DeckShown
  /\ ~ClampPending
  /\ isFlipped' = ~isFlipped
  /\ UNCHANGED <<appVars, writeVars, learnVars, gradeVars, testVars, matchVars, mcqVars,
                 genVars, libVars, mapVars, shuffledDeck, currentIndex, indexUpdates>>

\* the star button of the card shown: App.handleToggleStar gives FlashcardsMode a
\* new cards array, and the shuffleCards effect runs on it
ToggleStar ==
  /\ DeckShown
  /\ ~ClampPending
  /\ currentIndex # NaN
  /\ currentIndex < Len(shuffledDeck)
  /\ LET cardId == shuffledDeck[currentIndex + 1]
         stars == IF cardId \in starred THEN starred \ {cardId} ELSE starred \cup {cardId}
     IN  /\ starred' = stars
         /\ shuffleCards(FilteredCards(cardFilter, stars))
  /\ UNCHANGED <<cardFilter, currentMode, writeVars, learnVars, gradeVars, testVars,
                 matchVars, mcqVars, genVars, libVars, mapVars, indexUpdates>>

\* App: a changed filter gives FlashcardsMode a new cards array
FlashSetCardFilter ==
  \E f \in {"all", "starred"} :
    /\ FlashMounted
    /\ ~ClampPending
    /\ f # cardFilter
    /\ f = "starred" => starred # {}
    /\ cardFilter' = f
    /\ shuffleCards(FilteredCards(f, starred))
    /\ UNCHANGED <<starred, currentMode, writeVars, learnVars, gradeVars, testVars,
                   matchVars, mcqVars, genVars, libVars, mapVars, indexUpdates>>

FlashNext ==
  \/ RequestStep
  \/ IndexUpdateFires
  \/ ClampEffect
  \/ ShuffleClicked
  \/ Flip
  \/ ToggleStar
  \/ FlashSetCardFilter

FlashSpec == FlashInit /\ [][FlashNext]_vars

\* ---------------------------------------------------------------- MatchMode
\* a tile is <<cardId, type>>; its id (`${card.id}-term`, `${card.id}-def`) is the
\* pair itself
CardIdOf(item) == item[1]
TypeOf(item) == item[2]

RECURSIVE BagOfSeq(_)
BagOfSeq(items) ==
  IF Len(items) = 0 THEN EmptyBag
  ELSE SetToBag({Head(items)}) (+) BagOfSeq(Tail(items))

RECURSIVE PushItems(_)
\* gameCards.forEach: a term tile and a definition tile are pushed for each card
PushItems(gameCards) ==
  IF Len(gameCards) = 0 THEN <<>>
  ELSE <<<<Head(gameCards), "term">>, <<Head(gameCards), "definition">>>>
         \o PushItems(Tail(gameCards))

PairsTakenAll(n) == n
\* Math.min(PAIR_COUNT, Math.floor(cards.length))
PairsTaken(n) == Min2(PAIR_COUNT, n)

RECURSIVE ShuffledPrefixes(_, _)
\* shuffleArray(s).slice(0, k): the first k elements of every order of s
ShuffledPrefixes(s, k) ==
  IF k = 0 \/ Len(s) = 0 THEN {<<>>}
  ELSE UNION {{<<s[i]>> \o p : p \in ShuffledPrefixes(RemoveAt(s, i), k - 1)} :
              i \in 1..Len(s)}

\* the arrays gameCards can be
GameCards(snapshot) == ShuffledPrefixes(snapshot, PairsTaken(Len(snapshot)))

\* the grids setGridItems(shuffleArray(items)) can store
Grids(snapshot) == {BagOfSeq(PushItems(gameCards)) : gameCards \in GameCards(snapshot)}

\* setupGame on the cards prop snapshot
setupGame(snapshot) ==
  /\ gridItems' \in Grids(snapshot)
  /\ selectedItem' = <<>>
  /\ matchedIds' = <<>>
  /\ startTime' = NoTime
  /\ endTime' = NoTime
  /\ isNewRecord' = FALSE
  /\ completionRuns' = 0
  /\ staleResets' = 0

\* the dependency array of the completion effect
CompletionDeps == <<matchedIds, BagCardinality(gridItems), startTime, bestTime>>
\* the completion effect has not yet run for the values of this render
EffectPending == effectDeps # CompletionDeps

MatchMounted == currentMode = "Match"

\* the best times localStorage can hold when MatchMode mounts
SavedChoices == {NoTime, 1}

MatchInit ==
  /\ AppInit
  /\ currentMode = "Match"
  /\ setupCards = <<>>
  /\ savedBestTime \in SavedChoices
  /\ bestTime = savedBestTime
  /\ gridItems \in Grids(cards)
  /\ selectedItem = <<>>
  /\ matchedIds = <<>>
  /\ incorrectSelection = <<>>
  /\ startTime = NoTime
  /\ endTime = NoTime
  /\ isNewRecord = FALSE
  /\ now = 1
  /\ pendingResets = 0
  /\ effectDeps = <<<<>>, 0, NoTime, NoTime>>
  /\ completionRuns = 0
  /\ staleResets = 0
  /\ WriteIdle
  /\ LearnIdle
  /\ GradeIdle
  /\ TestIdle
  /\ TailIdle

\* the grid is rendered: neither the "at least 2 cards" nor the "You Win!" return
GridShown == MatchMounted /\ Len(cards) >= 2 /\ endTime = NoTime /\ ~EffectPending

IsMatchAnyType(selected, item) == CardIdOf(selected) = CardIdOf(item)
\* selectedItem.cardId === item.cardId && selectedItem.type !== item.type
IsMatch(selected, item) ==
  CardIdOf(selected) = CardIdOf(item) /\ TypeOf(selected) # TypeOf(item)

handleItemClick(item) ==
  /\ GridShown
  /\ CardIdOf(item) \notin Range(matchedIds)
  /\ startTime' = IF startTime = NoTime THEN now ELSE startTime
  /\ IF selectedItem = <<>>
     THEN /\ selectedItem' = item
          /\ staleResets' = pendingResets
          /\ UNCHANGED <<matchedIds, incorrectSelection, pendingResets>>
     ELSE IF IsMatch(selectedItem, item)
     THEN /\ matchedIds' = Append(matchedIds, CardIdOf(item))
          /\ selectedItem' = <<>>
          /\ staleResets' = 0
          /\ UNCHANGED <<incorrectSelection, pendingResets>>
     ELSE /\ pendingResets < MaxPending
          /\ incorrectSelection' = item
          /\ pendingResets' = pendingResets + 1
          /\ UNCHANGED staleResets
          /\ UNCHANGED <<selectedItem, matchedIds>>
  /\ UNCHANGED <<appVars, writeVars, learnVars, gradeVars, testVars, tailVars, setupCards, gridItems,
                 endTime, bestTime, isNewRecord, savedBestTime, now, effectDeps,
                 completionRuns>>

ItemClicked == \E item \in BagToSet(gridItems) : handleItemClick(item)

\* the 500 ms timeout of a mismatched click
ResetSelection ==
  /\ MatchMounted
  /\ ~EffectPending
  /\ pendingResets > 0
  /\ pendingResets' = pendingResets - 1
  /\ staleResets' = 0
  /\ incorrectSelection' = <<>>
  /\ selectedItem' = <<>>
  /\ UNCHANGED <<appVars, writeVars, learnVars, gradeVars, testVars, tailVars, setupCards, gridItems,
                 matchedIds, startTime, endTime, bestTime, isNewRecord, savedBestTime, now,
                 effectDeps, completionRuns>>

\* the game is complete for the completion effect
AllMatched ==
  /\ BagCardinality(gridItems) > 0
  /\ Len(matchedIds) > 0
  /\ 2 * Len(matchedIds) = BagCardinality(gridItems)

BeatsBestOrTies(duration, best) == best = NoTime \/ duration <= best
\* bestTime === null || duration < bestTime
BeatsBest(duration, best) == best = NoTime \/ duration < best

\* the completion effect, run after a render in which one of its dependencies changed
CompletionEffect ==
  /\ MatchMounted
  /\ EffectPending
  /\ effectDeps' = CompletionDeps
  /\ IF AllMatched
     THEN LET finalTime == now
              duration == finalTime - startTime
          IN  /\ endTime' = finalTime
              /\ completionRuns' = completionRuns + 1
              /\ IF startTime # NoTime /\ BeatsBest(duration, bestTime)
                 THEN /\ bestTime' = duration
                      /\ isNewRecord' = TRUE
                      /\ savedBestTime' = duration
                 ELSE UNCHANGED <<bestTime, isNewRecord, savedBestTime>>
     ELSE UNCHANGED <<endTime, completionRuns, bestTime, isNewRecord, savedBestTime>>
  /\ UNCHANGED <<appVars, writeVars, learnVars, gradeVars, testVars, tailVars, setupCards, gridItems,
                 selectedItem, matchedIds, incorrectSelection, startTime, now, pendingResets,
                 staleResets>>

\* time passes while a game is being played
Tick ==
  /\ MatchMounted
  /\ startTime # NoTime
  /\ now < MaxTime
  /\ now' = now + 1
  /\ UNCHANGED <<appVars, writeVars, learnVars, gradeVars, testVars, tailVars, setupCards, gridItems,
                 selectedItem, matchedIds, incorrectSelection, startTime, endTime, bestTime,
                 isNewRecord, savedBestTime, pendingResets, effectDeps, completionRuns,
                 staleResets>>

\* the "Play Again" button of the "You Win!" screen
PlayAgain ==
  /\ MatchMounted
  /\ ~EffectPending
  /\ Len(cards) >= 2
  /\ endTime # NoTime
  /\ setupGame(cards)
  /\ UNCHANGED <<appVars, writeVars, learnVars, gradeVars, testVars, tailVars, setupCards,
                 incorrectSelection, bestTime, savedBestTime, now, pendingResets, effectDeps>>

\* App: a changed filter gives MatchMode a new cards array; the effect loads the
\* stored best time and sets up a new game
MatchSetCardFilter ==
  \E f \in {"all", "starred"} :
    /\ MatchMounted
    /\ ~EffectPending
    /\ f # cardFilter
    /\ f = "starred" => starred # {}
    /\ cardFilter' = f
    /\ bestTime' = IF savedBestTime # NoTime THEN savedBestTime ELSE bestTime
    /\ setupGame(FilteredCards(f, starred))
    /\ UNCHANGED <<starred, currentMode, writeVars, learnVars, gradeVars, testVars, tailVars,
                   setupCards, incorrectSelection, savedBestTime, now, pendingResets,
                   effectDeps>>

MatchNext ==
  \/ ItemClicked
  \/ ResetSelection
  \/ CompletionEffect
  \/ Tick
  \/ PlayAgain
  \/ MatchSetCardFilter

MatchSpec == MatchInit /\ [][MatchNext]_vars

\* ------------------------------------------------------------ setupGame runs
RECURSIVE SubSeqsOf(_)
\* the arrays a filter can make of s
SubSeqsOf(s) ==
  IF Len(s) = 0 THEN {<<>>}
  ELSE LET rest == SubSeqsOf(Tail(s))
       IN  rest \cup {<<Head(s)>> \o r : r \in rest}

\* the cards props setupGame is run on: the filtered lists of a set of MaxSetupCards cards
SetupSnapshots == SubSeqsOf([i \in 1..MaxSetupCards |-> i])

\* MatchMode mounted on the snapshot setupCards: the state after its mount effect
SetupInit ==
  /\ starred = {}
  /\ cardFilter = "all"
  /\ currentMode = "Match"
  /\ setupCards \in SetupSnapshots
  /\ gridItems \in Grids(setupCards)
  /\ selectedItem = <<>>
  /\ matchedIds = <<>>
  /\ incorrectSelection = <<>>
  /\ startTime = NoTime
  /\ endTime = NoTime
  /\ bestTime = NoTime
  /\ isNewRecord = FALSE
  /\ savedBestTime = NoTime
  /\ now = 1
  /\ pendingResets = 0
  /\ effectDeps = <<<<>>, 0, NoTime, NoTime>>
  /\ completionRuns = 0
  /\ staleResets = 0
  /\ WriteIdle
  /\ LearnIdle
  /\ GradeIdle
  /\ TestIdle
  /\ TailIdle

\* MatchMode is mounted again on the same cards and its effect runs setupGame
SetupRemount ==
  /\ MatchMounted
  /\ setupGame(setupCards)
  /\ UNCHANGED <<appVars, writeVars, learnVars, gradeVars, testVars, tailVars, setupCards,
                 incorrectSelection, bestTime, savedBestTime, now, pendingResets, effectDeps>>

SetupNext == SetupRemount

SetupSpec == SetupInit /\ [][SetupNext]_vars

\* ---------------------------------------------------- generateMcqOptions runs
\* the terms of the cards in a run: three words and a copy of the first in capitals
McqTermPool == {Term(1), Term(2), Term(3), <<"A", "A", "A">>}

RECURSIVE ListsUpTo(_, _)
\* the arrays over pool of at most n elements
ListsUpTo(pool, n) ==
  IF n = 0 THEN {<<>>}
  ELSE LET shorter == ListsUpTo(pool, n - 1)
       IN  shorter \cup {Append(l, w) : l \in shorter, w \in pool}

\* one call of generateMcqOptions(term, definition, allTerms) per run; as in
\* fetchOptions, term is the term of one of the cards whose terms make allTerms
McqInit ==
  /\ starred = {}
  /\ cardFilter = "all"
  /\ currentMode = "Learn"
  /\ mcqTerm \in McqTermPool
  /\ mcqAllTerms \in ListsUpTo(McqTermPool, MaxTerms)
  /\ mcqTerm \in Range(mcqAllTerms)
  /\ mcqResolved = FALSE
  /\ mcqResult = <<>>
  /\ WriteIdle
  /\ LearnIdle
  /\ GradeIdle
  /\ TestIdle
  /\ MatchIdle
  /\ CreateSetIdle
  /\ LibraryIdle
  /\ ExtraIdle

\* the promise resolves: with the fallback, or with the first 3 options of the reply
McqResolves ==
  /\ ~mcqResolved
  /\ mcqResolved' = TRUE
  /\ mcqResult' \in generateMcqOptions(mcqTerm, mcqAllTerms)
  /\ UNCHANGED <<appVars, writeVars, learnVars, gradeVars, testVars, matchVars, genVars,
                 libVars, extraVars, mcqTerm, mcqAllTerms>>

McqNext == McqResolves

McqSpec == McqInit /\ [][McqNext]_vars

\* ------------------------------------------------ WriteMode: the end of a card
\* the arrays of distinct cards among 1..n
CardArrays(n) == UNION {Perms(sub) : sub \in SubSeqsOf([i \in 1..n |-> i])}

\* A Write session just after handleAnswerSubmit: the cards of remaining are still
\* to come, those of missed were answered incorrectly earlier in the round, and the
\* current card has just been graded; nextCard is pending with the state of the
\* render that took the answer
RoundInit ==
  /\ starred = {}
  /\ cardFilter = "all"
  /\ currentMode = "Write"
  /\ \E remaining \in CardArrays(MaxRoundCards) \ {<<>>}, isCorrect \in BOOLEAN :
     \E missed \in CardArrays(MaxRoundCards) :
       /\ Range(missed) \cap Range(remaining) = {}
       /\ remainingCards = remaining
       /\ currentCard = remaining[1]
       /\ inputValue = IF isCorrect THEN Term(remaining[1]) ELSE <<"x">>
       /\ answerState = IF isCorrect THEN "correct" ELSE "incorrect"
       /\ correctlyAnswered = IF isCorrect THEN <<remaining[1]>> ELSE <<>>
       /\ incorrectlyAnswered = IF isCorrect THEN missed ELSE Append(missed, remaining[1])
       /\ missedEver = Range(missed) \cup (IF isCorrect THEN {} ELSE {remaining[1]})
       /\ timers = <<[remaining |-> remaining, missed |-> missed,
                      delay |-> IF isCorrect THEN ShortDelay ELSE LongDelay]>>
  /\ overlaps = 0
  /\ LearnIdle
  /\ GradeIdle
  /\ LaterIdle

RoundNext == TimerFires

RoundSpec == RoundInit /\ [][RoundNext]_vars

\* ------------------------------------------------------------- App library
\* the state of every study mode, generateMcqOptions run included
modeVars == <<writeVars, learnVars, gradeVars, testVars, matchVars, mcqVars, extraVars>>

\* a card of a set: id and isStarred are left to the study-mode part of the model
SetCard == [term |-> <<"t">>, definition |-> <<"t">>]

StudySet(topic, setCards) == [topic |-> topic, cards |-> setCards]

\* a selected file: json is file.name.endsWith('.json'), parses is whether
\* JSON.parse(content) returns, topic and cards are the fields of the parsed value
\* ("" when missing), cardsIsArray is Array.isArray(set.cards)
FileOf(json, parses, topic, cardsIsArray, fileCards) ==
  [json |-> json, parses |-> parses, topic |-> topic, cardsIsArray |-> cardsIsArray,
   cards |-> fileCards]

FileChoices ==
  { FileOf(FALSE, TRUE, <<"T">>, TRUE, <<>>),        \* not a .json file
    FileOf(TRUE, FALSE, <<>>, FALSE, <<>>),          \* JSON.parse throws
    FileOf(TRUE, TRUE, <<>>, TRUE, <<>>),            \* no topic
    FileOf(TRUE, TRUE, <<"T">>, FALSE, <<>>),        \* cards is not an array
    FileOf(TRUE, TRUE, <<"T">>, TRUE, <<>>),
    FileOf(TRUE, TRUE, <<"T">>, TRUE, <<SetCard>>),
    FileOf(TRUE, TRUE, <<"U">>, TRUE, <<>>) }

\* the files for which the loop body reaches loadedSets.push(set)
FileLoads(file) ==
  /\ file.json
  /\ file.parses
  /\ file.topic # <<>>
  /\ file.cardsIsArray

RECURSIVE LoadFilesUntilBad(_, _)
LoadFilesUntilBad(files, loadedSets) ==
  IF files = <<>> \/ ~FileLoads(Head(files)) THEN loadedSets
  ELSE LoadFilesUntilBad(Tail(files),
                         Append(loadedSets, StudySet(Head(files).topic, Head(files).cards)))

RECURSIVE LoadFiles(_, _)
\* the for loop over the files, try/catch inside the loop body
LoadFiles(files, loadedSets) ==
  IF files = <<>> THEN loadedSets
  ELSE LoadFiles(Tail(files),
                 IF FileLoads(Head(files))
                 THEN Append(loadedSets, StudySet(Head(files).topic, Head(files).cards))
                 ELSE loadedSets)

HasTopic(sets, topic) == \E i \in 1..Len(sets) : sets[i].topic = topic

\* loadedSets.filter(ls => !allSets.some(as => as.topic === ls.topic))
NewSets(loadedSets, sets) == SelectSeq(loadedSets, LAMBDA ls : ~HasTopic(sets, ls.topic))

\* the arguments CreateSet passes to onSetCreated in a run without the editor
CreatedTopics == {<<"T">>}
CreatedCards == {<<SetCard, SetCard>>}

LibraryInit ==
  /\ starred = {}
  /\ cardFilter = "all"
  /\ currentMode = "Flashcards"
  /\ allSets = <<>>
  /\ activeSet = <<>>
  /\ view = "library"
  /\ imports = EmptyBag
  /\ selectedFiles = <<>>
  /\ WriteIdle
  /\ LearnIdle
  /\ GradeIdle
  /\ TestIdle
  /\ MatchIdle
  /\ McqIdle
  /\ ExtraIdle
  /\ CreateSetIdle

\* Library.onCreateNew
onCreateNew ==
  /\ view = "library"
  /\ view' = "create"
  /\ UNCHANGED <<appVars, modeVars, genVars, allSets, activeSet, imports, selectedFiles>>

\* the updates of App.handleSetCreated
handleSetCreated(topic, setCards) ==
  /\ Len(allSets) < MaxSets
  /\ allSets' = Append(allSets, StudySet(topic, setCards))
  /\ activeSet' = <<StudySet(topic, setCards)>>
  /\ currentMode' = "Flashcards"
  /\ cardFilter' = "all"
  /\ view' = "study"

SetCreated ==
  \E topic \in CreatedTopics, setCards \in CreatedCards :
    /\ view = "create"
    /\ handleSetCreated(topic, setCards)
    /\ UNCHANGED <<starred, modeVars, genVars, imports, selectedFiles>>

handleSelectSet ==
  \E i \in 1..Len(allSets) :
    /\ view = "library"
    /\ activeSet' = <<allSets[i]>>
    /\ currentMode' = "Flashcards"
    /\ cardFilter' = "all"
    /\ view' = "study"
    /\ UNCHANGED <<starred, modeVars, genVars, allSets, imports, selectedFiles>>

handleBackToLibrary ==
  /\ view \in {"create", "study"}
  /\ activeSet' = <<>>
  /\ view' = "library"
  /\ UNCHANGED <<appVars, modeVars, genVars, allSets, imports, selectedFiles>>

\* handleFilesSelected up to its first await.  The loop and the filter read only
\* the files and the allSets of the render that made the handler, so newSets is
\* fixed here; what stays pending is setAllSets(prev => [...prev, ...newSets])
handleFilesSelected(files) ==
  /\ view = "library"
  /\ BagCardinality(imports) < MaxImports
  /\ imports' = imports (+) SetToBag({NewSets(LoadFiles(files, <<>>), allSets)})
  /\ UNCHANGED <<appVars, modeVars, genVars, allSets, activeSet, view, selectedFiles>>

Batches == ListsUpTo(FileChoices, MaxBatch)

FilesSelected == \E files \in Batches : handleFilesSelected(files)

\* the files are read and setAllSets runs
ImportSettles ==
  \E newSets \in BagToSet(imports) :
    /\ Len(allSets) + Len(newSets) <= MaxSets
    /\ allSets' = allSets \o newSets
    /\ imports' = imports (-) SetToBag({newSets})
    /\ UNCHANGED <<appVars, modeVars, genVars, activeSet, view, selectedFiles>>

LibraryNext ==
  \/ onCreateNew
  \/ SetCreated
  \/ handleSelectSet
  \/ handleBackToLibrary
  \/ FilesSelected
  \/ ImportSettles

LibrarySpec == LibraryInit /\ [][LibraryNext]_vars

\* --------------------------------------------------- handleFilesSelected runs
\* the sets a library holds
SetChoices ==
  {StudySet(<<"T">>, <<>>), StudySet(<<"T">>, <<SetCard>>), StudySet(<<"U">>, <<>>),
   StudySet(<<"T">>, <<SetCard, SetCard>>)}

\* one folder selection per run, made in a library of created and imported sets
ImportInit ==
  /\ starred = {}
  /\ cardFilter = "all"
  /\ currentMode = "Flashcards"
  /\ allSets \in ListsUpTo(SetChoices, MaxSets)
  /\ activeSet = <<>>
  /\ view = "library"
  /\ imports = EmptyBag
  /\ selectedFiles \in Batches
  /\ WriteIdle
  /\ LearnIdle
  /\ GradeIdle
  /\ TestIdle
  /\ MatchIdle
  /\ McqIdle
  /\ ExtraIdle
  /\ CreateSetIdle

\* the change event of the file input
ImportStarts == handleFilesSelected(selectedFiles)

ImportNext ==
  \/ ImportStarts
  \/ ImportSettles

ImportSpec == ImportInit /\ [][ImportNext]_vars

\* ----------------------------------------------------- CreateSet, AiGenerator
\* the texts a term or definition field of the editor holds
FieldTexts(field) ==
  IF field = "term" THEN {<<>>, <<"t">>} ELSE {<<>>, <<" ">>, <<"t">>}
\* the texts of the title input
TitleTexts == {<<>>, <<" ">>, <<"T">>}
NoTitleMessage == "Please enter a title for your study set."
TooFewCardsMessage == "Please create at least 2 valid cards (with both term and definition)."
MinValidCards == 2
EmptyCard == [term |-> <<>>, definition |-> <<>>]
\* a card of a generateFlashcards reply
AiCard == [term |-> <<"t">>, definition |-> <<"t">>]
\* the arrays generateFlashcards can resolve with
AiReplies == {<<>>, <<AiCard>>}
\* the texts of the notes textarea
NoteTexts == {<<>>, <<" ">>, <<"n">>}
\* the messages of the errors generateFlashcards throws
RejectMessages == {"Failed to generate flashcards."}
BlankNotesMessage == "Please paste your notes for AI generation."

CreateSetMounted == view = "create"

\* the library in which the editor is opened
LibraryChoices == {<<StudySet(<<"T">>, <<>>)>>}

CreateSetInit ==
  /\ starred = {}
  /\ cardFilter = "all"
  /\ currentMode = "Flashcards"
  /\ title = <<>>
  /\ editorCards = <<EmptyCard, EmptyCard, EmptyCard>>
  /\ isLoading = FALSE
  /\ error = <<>>
  /\ showAiGenerator = FALSE
  /\ notes = <<>>
  /\ isGenerating = FALSE
  /\ requests = [mounted |-> 0, orphaned |-> 0]
  /\ allSets \in LibraryChoices
  /\ activeSet = <<>>
  /\ view = "create"
  /\ imports = EmptyBag
  /\ selectedFiles = <<>>
  /\ WriteIdle
  /\ LearnIdle
  /\ GradeIdle
  /\ TestIdle
  /\ MatchIdle
  /\ McqIdle
  /\ ExtraIdle

handleCardChange ==
  \E i \in 1..Len(editorCards), field \in {"term", "definition"} :
   \E value \in FieldTexts(field) :
    /\ CreateSetMounted
    /\ editorCards[i][field] # value
    /\ editorCards' = [editorCards EXCEPT ![i][field] = value]
    /\ UNCHANGED <<appVars, writeVars, learnVars, gradeVars, testVars, matchVars, mcqVars, extraVars,
                   libVars, title, isLoading, error, showAiGenerator, notes, isGenerating, requests>>

addCard ==
  /\ CreateSetMounted
  /\ Len(editorCards) < MaxEditorCards
  /\ editorCards' = Append(editorCards, EmptyCard)
  /\ UNCHANGED <<appVars, writeVars, learnVars, gradeVars, testVars, matchVars, mcqVars, extraVars,
                 libVars, title, isLoading, error, showAiGenerator, notes, isGenerating, requests>>

removeCard ==
  \E i \in 1..Len(editorCards) :
    /\ CreateSetMounted
    /\ editorCards' = RemoveAt(editorCards, i)
    /\ UNCHANGED <<appVars, writeVars, learnVars, gradeVars, testVars, matchVars, mcqVars, extraVars,
                   libVars, title, isLoading, error, showAiGenerator, notes, isGenerating, requests>>

\* the pending calls once the mounted AiGenerator is unmounted
Orphaned(reqs) == [mounted |-> 0, orphaned |-> reqs.mounted + reqs.orphaned]

\* the "Or generate from notes with AI" / "Hide AI Generator" button: AiGenerator is
\* mounted with its initial state, or unmounted
ToggleAiGenerator ==
  /\ CreateSetMounted
  /\ showAiGenerator' = ~showAiGenerator
  /\ notes' = <<>>
  /\ isGenerating' = FALSE
  /\ requests' = Orphaned(requests)
  /\ UNCHANGED <<appVars, writeVars, learnVars, gradeVars, testVars, matchVars, mcqVars, extraVars,
                 libVars, title, editorCards, isLoading, error>>

\* onChange of the notes textarea (disabled while generating)
SetNotes ==
  /\ CreateSetMounted
  /\ showAiGenerator
  /\ ~isGenerating
  /\ \E v \in NoteTexts : v # notes /\ notes' = v
  /\ UNCHANGED <<appVars, writeVars, learnVars, gradeVars, testVars, matchVars, mcqVars, extraVars,
                 libVars, title, editorCards, isLoading, error, showAiGenerator, isGenerating, requests>>

\* handleGenerate up to the await.  The "Generate Cards" button is disabled while
\* generating; the check of blank notes is the handler's own
handleGenerate ==
  /\ CreateSetMounted
  /\ showAiGenerator
  /\ ~isGenerating
  /\ IF trim(notes) = <<>>
     THEN /\ error' = <<BlankNotesMessage>>
          /\ UNCHANGED <<isGenerating, isLoading, requests>>
     ELSE /\ requests.mounted + requests.orphaned < MaxRequests
          /\ error' = <<>>
          /\ isGenerating' = TRUE
          /\ isLoading' = TRUE
          /\ requests' = [requests EXCEPT !.mounted = @ + 1]
  /\ UNCHANGED <<appVars, writeVars, learnVars, gradeVars, testVars, matchVars, mcqVars, extraVars,
                 libVars, title, editorCards, showAiGenerator, notes>>

\* one pending call less: of the mounted AiGenerator (byMounted) or an orphaned one
Settled(reqs, byMounted) ==
  IF byMounted THEN [reqs EXCEPT !.mounted = @ - 1] ELSE [reqs EXCEPT !.orphaned = @ - 1]
HasPending(byMounted) ==
  IF byMounted THEN requests.mounted > 0 ELSE requests.orphaned > 0

\* generateFlashcards resolves: handleAiCardsGenerated drops the empty cards, appends
\* the new ones and hides the generator; then the finally block runs
generateFlashcardsResolves(byMounted) ==
  \E newCards \in AiReplies :
    LET kept == SelectSeq(editorCards, LAMBDA c : c.term # <<>> \/ c.definition # <<>>) IN
    /\ CreateSetMounted
    /\ HasPending(byMounted)
    /\ Len(kept) + Len(newCards) <= MaxEditorCards
    /\ editorCards' = kept \o newCards
    /\ showAiGenerator' = FALSE
    /\ notes' = <<>>
    /\ isGenerating' = FALSE
    /\ isLoading' = FALSE
    /\ requests' = Orphaned(Settled(requests, byMounted))
    /\ UNCHANGED <<appVars, writeVars, learnVars, gradeVars, testVars, matchVars, mcqVars, extraVars,
                   libVars, title, error>>

RejectedErrorNone(message) == <<>>
\* setError(e.message || "An unknown AI error occurred.")
RejectedError(message) ==
  IF message # "" THEN <<message>> ELSE <<"An unknown AI error occurred.">>

\* generateFlashcards rejects: the catch block, then the finally block
generateFlashcardsRejects(byMounted) ==
  \E message \in RejectMessages :
    /\ CreateSetMounted
    /\ HasPending(byMounted)
    /\ error' = RejectedError(message)
    /\ isGenerating' = IF byMounted THEN FALSE ELSE isGenerating
    /\ isLoading' = FALSE
    /\ requests' = Settled(requests, byMounted)
    /\ UNCHANGED <<appVars, writeVars, learnVars, gradeVars, testVars, matchVars, mcqVars, extraVars,
                   libVars, title, editorCards, showAiGenerator, notes>>

\* onChange of the title input
SetTitle ==
  /\ CreateSetMounted
  /\ \E v \in TitleTexts : v # title /\ title' = v
  /\ UNCHANGED <<appVars, modeVars, libVars, editorCards, isLoading, error, showAiGenerator,
                 notes, isGenerating, requests>>

\* CreateSet is unmounted: its state and the state of its AiGenerator are dropped,
\* and the updates of the calls still pending are no-ops
CreateSetUnmounted ==
  /\ editorCards' = <<>>
  /\ isLoading' = FALSE
  /\ error' = <<>>
  /\ showAiGenerator' = FALSE
  /\ notes' = <<>>
  /\ isGenerating' = FALSE
  /\ requests' = [mounted |-> 0, orphaned |-> 0]
  /\ title' = <<>>

HasTitleUntrimmed(t) == t # <<>>
\* title.trim()
HasTitle(t) == trim(t) # <<>>

IsValidCardUntrimmed(card) == card.term # <<>> /\ card.definition # <<>>
\* card.term.trim() && card.definition.trim()
IsValidCard(card) == trim(card.term) # <<>> /\ trim(card.definition) # <<>>

\* the "Create Set" button, disabled while isLoading
createSet ==
  LET finalCards == SelectSeq(editorCards, IsValidCard) IN
  /\ CreateSetMounted
  /\ ~isLoading
  /\ IF ~HasTitle(title)
     THEN /\ error' = <<NoTitleMessage>>
          /\ UNCHANGED <<appVars, libVars, editorCards, isLoading, showAiGenerator, notes,
                         isGenerating, requests, title>>
     ELSE IF Len(finalCards) < MinValidCards
     THEN /\ error' = <<TooFewCardsMessage>>
          /\ UNCHANGED <<appVars, libVars, editorCards, isLoading, showAiGenerator, notes,
                         isGenerating, requests, title>>
     ELSE /\ handleSetCreated(title, finalCards)
          /\ CreateSetUnmounted
          /\ UNCHANGED <<starred, imports, selectedFiles>>
  /\ UNCHANGED modeVars

\* the "Back to Library" button of CreateSet
CreateSetBack ==
  /\ CreateSetMounted
  /\ activeSet' = <<>>
  /\ view' = "library"
  /\ CreateSetUnmounted
  /\ UNCHANGED <<appVars, modeVars, allSets, imports, selectedFiles>>

RequestResolves == \E byMounted \in BOOLEAN : generateFlashcardsResolves(byMounted)
RequestRejects == \E byMounted \in BOOLEAN : generateFlashcardsRejects(byMounted)

CreateSetNext ==
  \/ handleCardChange
  \/ addCard
  \/ removeCard
  \/ ToggleAiGenerator
  \/ SetNotes
  \/ handleGenerate
  \/ RequestResolves
  \/ RequestRejects
  \/ SetTitle
  \/ createSet
  \/ CreateSetBack

CreateSetSpec == CreateSetInit /\ [][CreateSetNext]_vars

\* --------------------------------------------- edit distance, by definition
\* the strings one single-character edit away from s, with characters of sigma
DeleteAt(s, i) == [j \in 1..(Len(s) - 1) |-> IF j < i THEN s[j] ELSE s[j + 1]]
SubstituteAt(s, i, c) == [j \in 1..Len(s) |-> IF j = i THEN c ELSE s[j]]
InsertAt(s, i, c) ==
  [j \in 1..(Len(s) + 1) |-> IF j <= i THEN s[j] ELSE IF j = i + 1 THEN c ELSE s[j - 1]]
OneEdit(s, sigma) ==
  {DeleteAt(s, i) : i \in 1..Len(s)}
    \cup {SubstituteAt(s, i, c) : i \in 1..Len(s), c \in sigma}
    \cup {InsertAt(s, i, c) : i \in 0..Len(s), c \in sigma}

RECURSIVE EditBall(_, _, _)
\* the strings at most k edits away from a string of S
EditBall(S, k, sigma) ==
  IF k = 0 THEN S
  ELSE EditBall(S \cup UNION {OneEdit(s, sigma) : s \in S}, k - 1, sigma)

\* b can be made from a with at most k edits (an edit and its inverse are both
\* edits, so a chain of k edits meets in the middle)
WithinEdits(a, b, k) ==
  LET sigma == Range(a) \cup Range(b)
      half == k \div 2
  IN  k >= 0 /\ EditBall({a}, k - half, sigma) \cap EditBall({b}, half, sigma) # {}

\* =================================================================== claims
Count(s, c) == Cardinality({i \in 1..Len(s) : s[i] = c})
NoDuplicates(s) == \A i, j \in 1..Len(s) : s[i] = s[j] => i = j

\* the Write session is complete: the "Set Complete!" screen is shown
WriteComplete == WriteMounted /\ Len(cards) # 0 /\ currentCard = Null
\* the Learn session is complete: the results screen is shown
LearnComplete == LearnMounted /\ Len(cards) # 0 /\ learnCurrentCard = Null

\* C1: whenever a Write session over a non-empty snapshot is complete, every card
\* of the snapshot has been graded correct at least once in that session.
C1_CompleteMeansAllCorrect ==
  WriteComplete => \A c \in Range(cards) : c \in Range(correctlyAnswered)

\* C2: a card answered incorrectly stays scheduled (in remainingCards or in
\* incorrectlyAnswered, so that it is presented again) until it is graded correct,
\* and the session does not complete before it has been graded correct.
C2_MissedCardComesBack ==
  LET owed == missedEver \ Range(correctlyAnswered) IN
  (WriteMounted /\ Len(cards) # 0) =>
     /\ owed \subseteq Range(remainingCards) \cup Range(incorrectlyAnswered)
     /\ currentCard = Null => owed = {}

\* C3: in every state of Learn mode each snapshot card is in exactly one of
\* unseen, learning, known.
C3_ExactlyOnePool ==
  LearnMounted =>
    \A c \in Range(cards) : Count(unseen, c) + Count(learning, c) + Count(known, c) = 1

\* C4: the Learn session is complete iff known contains every snapshot card; it is
\* never complete while unseen or learning is non-empty.
C4_CompleteIffAllKnown ==
  (LearnMounted /\ Len(cards) # 0) =>
     /\ (learnCurrentCard = Null) <=> (Range(cards) \subseteq Range(known))
     /\ learnCurrentCard = Null => (unseen = <<>> /\ learning = <<>>)

\* C5: a graded answer is accepted iff, after trimming and lowercasing, it equals
\* the term or can be made from it with at most 2 single-character edits when the
\* term has more than 7 characters and at most 1 otherwise; and
\* calculateLevenshteinDistance returns the least number of edits.
C5_GraderIsEditDistance ==
  gGraded =>
    LET a == Normalize(gInput)
        t == Normalize(gTerm)
        d == calculateLevenshteinDistance(a, t)
    IN  /\ gIsCorrect <=> (a = t \/ WithinEdits(a, t, IF Len(t) > 7 THEN 2 ELSE 1))
        /\ WithinEdits(a, t, d)
        /\ ~WithinEdits(a, t, d - 1)
\* a term of more than 7 characters with an accepted answer two edits away
C5_Witness ==
  /\ gGraded
  /\ gIsCorrect
  /\ Len(Normalize(gTerm)) > 7
  /\ calculateLevenshteinDistance(Normalize(gInput), Normalize(gTerm)) = 2

\* the characters of s without its whitespace, lowercased
Letters(s) ==
  LET kept == SelectSeq(s, LAMBDA c : c \notin WhiteSpace)
  IN  [i \in 1..Len(kept) |-> LowerChar(kept[i])]
\* x and y are copies of one string up to letter case and surrounding whitespace
SameUpToCaseAndPadding(x, y) ==
  /\ Letters(x) = Letters(y)
  /\ \A s \in {x, y} :
       \A i, j, k \in 1..Len(s) :
         (i < j /\ j < k /\ s[j] \in WhiteSpace) => (s[i] \in WhiteSpace \/ s[k] \in WhiteSpace)

\* C6: an answer that is a copy of the term, up to letter case and surrounding
\* whitespace, and is not blank, is accepted.
C6_GraderReflexive ==
  (gGraded /\ SameUpToCaseAndPadding(gInput, gTerm)) => gIsCorrect
\* two copies that differ in the case of two letters and in padding
C6_Witness ==
  /\ gGraded
  /\ gIsCorrect
  /\ gInput = <<" ","A","B","A","B","A","B","A"," ">>
  /\ gTerm = <<"a","b","a","b","a","b","a">>

Recieve == <<"r","e","c","i","e","v","e">>
Receive == <<"r","e","c","e","i","v","e">>
Deceive == <<"d","e","c","e","i","v","e">>

\* C7: the answer "recieve" is accepted for the term "receive".
C7_RecieveAccepted ==
  (gGraded /\ gInput = Recieve /\ gTerm = Receive) => gIsCorrect
\* C7 as amended: the answer "recieve" is rejected for the term "receive": the two
\* are 2 edits apart and a term of 7 characters tolerates 1.
C7_RecieveRejected ==
  (gGraded /\ gInput = Recieve /\ gTerm = Receive) =>
     /\ ~gIsCorrect
     /\ calculateLevenshteinDistance(Normalize(gInput), Normalize(gTerm)) = 2
C7_Witness == gGraded /\ gInput = Recieve /\ gTerm = Receive

\* C8: the answer "recieve" is rejected for the term "deceive".
C8_RecieveNotDeceive ==
  (gGraded /\ gInput = Recieve /\ gTerm = Deceive) => ~gIsCorrect
C8_Witness == gGraded /\ gInput = Recieve /\ gTerm = Deceive

\* C9: in every state of Learn mode the learning pool contains no card that is in
\* known, and neither of the two pools contains a card twice.
C9_LearningDisjointFromKnown ==
  LearnMounted =>
    /\ Range(learning) \cap Range(known) = {}
    /\ NoDuplicates(learning)
    /\ NoDuplicates(known)
\* a card of the learning pile is current while another card is known
C9_Witness ==
  /\ LearnMounted
  /\ learnCurrentCard \in Range(learning)
  /\ known # <<>>
  /\ unseen = <<>>

\* C10: a Write or Learn session on an empty snapshot has no current card and
\* empty pools, and no answer and no confirmation can be submitted.
C10_EmptySnapshot ==
  Len(cards) = 0 =>
    /\ currentCard = Null /\ remainingCards = <<>>
    /\ incorrectlyAnswered = <<>> /\ correctlyAnswered = <<>>
    /\ learnCurrentCard = Null /\ unseen = <<>> /\ learning = <<>> /\ known = <<>>
    /\ ~ENABLED handleAnswerSubmit
    /\ ~ENABLED handleAnswer
    /\ ~ENABLED handleNextStep
\* Write mode is mounted with the starred filter on and no card starred
C10_Witness ==
  /\ Len(cards) = 0
  /\ currentMode = "Write"
  /\ cardFilter = "starred"
  /\ currentCard = Null

\* C11: while the Write-mode input is empty or holds only whitespace, a submission
\* is turned away before grading: handleAnswerSubmit takes no step, so answerState,
\* remainingCards, incorrectlyAnswered, correctlyAnswered and currentCard stay as
\* they are and no nextCard timer is scheduled.
C11_BlankAnswerRejected ==
  (WriteMounted /\ trim(inputValue) = <<>>) => ~ENABLED handleAnswerSubmit
\* a whitespace-only answer is in the input of an unanswered card
C11_Witness ==
  /\ WriteFormShown
  /\ answerState = "unanswered"
  /\ inputValue = <<" ">>
  /\ trim(inputValue) = <<>>

McQuestions == {i \in 1..Len(questions) : questions[i].type = "mc"}
WrittenQuestions == {i \in 1..Len(questions) : questions[i].type = "written"}

\* C12: the Test-mode question list has exactly one question per card of the
\* snapshot; floor(N/2) of them are multiple-choice and the other N - floor(N/2)
\* are free-text, whatever the shuffles return.
C12_QuestionSplit ==
  TestMounted =>
    /\ Len(questions) = Len(cards)
    /\ \A c \in Range(cards) :
         Cardinality({i \in 1..Len(questions) : questions[i].card = c}) = 1
    /\ Cardinality(McQuestions) = Len(cards) \div 2
    /\ Cardinality(WrittenQuestions) = Len(cards) - (Len(cards) \div 2)
\* a list built from a snapshot of two or more cards, holding both kinds of question
C12_Witness ==
  /\ TestMounted
  /\ Len(cards) >= 2
  /\ McQuestions # {}
  /\ WrittenQuestions # {}

\* C13: the option list of every multiple-choice question contains the term of
\* its own card exactly once, also when two cards carry the same term.
C13_OwnTermOnce ==
  TestMounted =>
    \A i \in McQuestions :
      Count(questions[i].options, testTerms[questions[i].card]) = 1

\* the question at position i has an answer
Answered(i) == questions[i].card \in DOMAIN answers
\* the edit distance between the normalized answer and term of question i
AnswerDistance(i) ==
  calculateLevenshteinDistance(Normalize(answers[questions[i].card]),
                               Normalize(testTerms[questions[i].card]))

\* C14: once the test is submitted, the score is the number of questions whose
\* trimmed, lowercased answer equals the trimmed, lowercased term; a question whose
\* answer is 1 or 2 edits away from the term, and an unanswered question, is not
\* counted.
C14_ExactMatchScore ==
  (TestMounted /\ isSubmitted) =>
    LET all == 1..Len(questions)
        exact == {i \in all : Answered(i) /\
                    Normalize(answers[questions[i].card]) = Normalize(testTerms[questions[i].card])}
        near == {i \in all : Answered(i) /\ AnswerDistance(i) \in {1, 2}}
        blank == {i \in all : ~Answered(i)}
    IN  /\ score = Cardinality(exact)
        /\ score <= Len(questions) - Cardinality(near) - Cardinality(blank)
\* a submitted test with one answer counted and one answer a letter short of its term
C14_Witness ==
  /\ TestMounted
  /\ isSubmitted
  /\ score = 1
  /\ \E i \in 1..Len(questions) : Answered(i) /\ AnswerDistance(i) = 1

\* C15: the completion handling of a Match game runs exactly once per game, when
\* the last pair is matched, and not again until setupGame sets up a new game.
C15_CompletionOnce ==
  MatchMounted =>
    /\ completionRuns <= 1
    /\ (AllMatched /\ ~EffectPending) => completionRuns = 1
    /\ ~AllMatched => completionRuns = 0

\* C17: with a tile selected, a click on a tile adds a card to matchedIds iff the
\* two tiles have the same card id and different types, and then it adds that card;
\* a click on the selected tile itself or on a tile of another card adds nothing.
C17_MatchIffSameCardOtherType ==
  [][\A item \in BagToSet(gridItems) :
       (selectedItem # <<>> /\ handleItemClick(item)) =>
          /\ (matchedIds' # matchedIds) <=>
               (item[1] = selectedItem[1] /\ item[2] # selectedItem[2])
          /\ (matchedIds' # matchedIds) => matchedIds' = Append(matchedIds, item[1])
          /\ (item = selectedItem \/ item[1] # selectedItem[1]) => matchedIds' = matchedIds
    ]_vars
\* one pair is matched and a tile of the other card is selected
C17_Witness ==
  /\ MatchMounted
  /\ Len(matchedIds) = 1
  /\ selectedItem # <<>>
  /\ incorrectSelection # <<>>

\* C18: the best-time store is written only with the duration of the game just
\* completed and only when that duration is strictly lower than the stored value
\* (or nothing was stored).  A write is a step that changes the stored value or
\* raises isNewRecord, which the code sets together with the store.
C18_BestTimeOnlyImproves ==
  [][(savedBestTime' # savedBestTime \/ (isNewRecord' /\ ~isNewRecord)) =>
       /\ savedBestTime # NoTime => savedBestTime' < savedBestTime
       /\ AllMatched
       /\ savedBestTime' = endTime' - startTime
    ]_vars
\* a game completed with a duration that is not lower than the stored best time
C18_Witness ==
  /\ MatchMounted
  /\ endTime # NoTime
  /\ savedBestTime # NoTime
  /\ endTime - startTime >= savedBestTime
  /\ ~isNewRecord

\* the cards that have a tile in the grid
GridCards == {item[1] : item \in BagToSet(gridItems)}

\* C16: setupGame on a snapshot of N cards selects min(6, N) different cards of the
\* snapshot, and the grid holds exactly one term tile and one definition tile for
\* each of them: 6 cards and 12 tiles for a snapshot of 6 or more cards.
C16_SixPairs ==
  MatchMounted =>
    LET n == Len(setupCards)
        k == IF n < 6 THEN n ELSE 6
    IN  /\ GridCards \subseteq Range(setupCards)
        /\ Cardinality(GridCards) = k
        /\ BagCardinality(gridItems) = 2 * k
        /\ \A c \in GridCards :
             /\ CopiesIn(<<c, "term">>, gridItems) = 1
             /\ CopiesIn(<<c, "definition">>, gridItems) = 1
        /\ n >= 6 => (Cardinality(GridCards) = 6 /\ BagCardinality(gridItems) = 12)
\* a snapshot of more than 6 cards, one of which has no tile
C16_Witness ==
  /\ MatchMounted
  /\ Len(setupCards) > 6
  /\ Range(setupCards) \ GridCards # {}
  /\ BagCardinality(gridItems) = 12

\* C19: generateMcqOptions always resolves with exactly 3 strings, none of which
\* equals term when letter case is ignored.
C19_ThreeDistractors ==
  mcqResolved =>
    /\ Len(mcqResult) = 3
    /\ \A i \in 1..Len(mcqResult) : toLowerCase(mcqResult[i]) # toLowerCase(mcqTerm)

\* C20: a handleGenerate call with blank notes, and a generateFlashcards call that
\* rejects, set an error message and leave the CreateSet card list unchanged;
\* afterwards isLoading is false and so is isGenerating of the AiGenerator that
\* made the call.  The blank call starts no request and raises neither flag.
C20_GenerateFailure ==
  [][/\ (handleGenerate /\ trim(notes) = <<>>) =>
          /\ error' # <<>>
          /\ editorCards' = editorCards
          /\ ~isGenerating'
          /\ isLoading' = isLoading
          /\ requests' = requests
     /\ \A byMounted \in BOOLEAN :
          generateFlashcardsRejects(byMounted) =>
             /\ error' # <<>>
             /\ editorCards' = editorCards
             /\ ~isLoading'
             /\ byMounted => ~isGenerating'
    ]_vars
\* the error of a rejected call is shown, the flags are down and an edited card is
\* still in the editor
C20_Witness ==
  /\ CreateSetMounted
  /\ error \in {<<m>> : m \in RejectMessages}
  /\ ~isLoading
  /\ ~isGenerating
  /\ showAiGenerator
  /\ notes = <<"n">>
  /\ requests = [mounted |-> 0, orphaned |-> 0]
  /\ \E i \in 1..Len(editorCards) : editorCards[i].term # <<>>

\* C21: no two sets of the library share a topic, whatever sets were created and
\* whatever folders were imported.
C21_TopicsUnique ==
  \A i, j \in 1..Len(allSets) : allSets[i].topic = allSets[j].topic => i = j

\* C23: a folder selection leaves pending, in the order of the files, the set of
\* every file that is a .json file, parses and passes the validation and whose
\* topic is not in the library, wherever the other files stand in the batch; when
\* the import settles all of them are appended to the library.
C23_BadFilesSkipped ==
  [][/\ ImportStarts =>
          LET good == SelectSeq(selectedFiles,
                                LAMBDA f : /\ f.json /\ f.parses
                                           /\ f.topic # <<>> /\ f.cardsIsArray
                                           /\ \A i \in 1..Len(allSets) : allSets[i].topic # f.topic)
              added == [i \in 1..Len(good) |-> StudySet(good[i].topic, good[i].cards)]
          IN  imports' = imports (+) SetToBag({added})
     /\ ImportSettles =>
          \E newSets \in BagToSet(imports) :
            /\ imports' = imports (-) SetToBag({newSets})
            /\ allSets' = allSets \o newSets
    ]_vars
\* the import of a batch of a bad file followed by a valid one is pending with the
\* set of the valid file, in a library that holds a set of another topic
C23_Witness ==
  /\ Len(selectedFiles) = 2
  /\ ~selectedFiles[1].parses
  /\ FileLoads(selectedFiles[2])
  /\ Len(allSets) = 1
  /\ allSets[1].topic # selectedFiles[2].topic
  /\ imports = SetToBag({<<StudySet(selectedFiles[2].topic, selectedFiles[2].cards)>>})

\* C22: createSet hands a set to onSetCreated only when the title is not blank and
\* at least 2 cards have a non-blank term and a non-blank definition: the set of
\* those cards under that title joins the library and becomes the active set;
\* otherwise an error is set and the cards of the editor, the library and the
\* active set stay as they are.
C22_CreateSetValidation ==
  [][createSet =>
       LET blank(t) == \A i \in 1..Len(t) : t[i] = " "
           valid == SelectSeq(editorCards,
                              LAMBDA c : ~blank(c.term) /\ ~blank(c.definition))
       IN  IF ~blank(title) /\ Len(valid) >= 2
           THEN /\ allSets' = Append(allSets, [topic |-> title, cards |-> valid])
                /\ activeSet' = <<[topic |-> title, cards |-> valid]>>
                /\ view' = "study"
           ELSE /\ error' # <<>>
                /\ editorCards' = editorCards
                /\ allSets' = allSets
                /\ activeSet' = activeSet
                /\ view' = "create"
    ]_vars
\* a rejected createSet: the error of too few valid cards is shown in an editor
\* that has a title, one valid card and a card whose definition is blank
C22_Witness ==
  /\ CreateSetMounted
  /\ error = <<TooFewCardsMessage>>
  /\ title = <<"T">>
  /\ \E i, j \in 1..Len(editorCards) :
       /\ IsValidCard(editorCards[i])
       /\ editorCards[j].term = <<"t">>
       /\ editorCards[j].definition = <<" ">>

\* C24: whenever a card is presented it is the first card of remainingCards.
C24_CurrentIsHead ==
  currentCard # Null => (remainingCards # <<>> /\ currentCard = remainingCards[1])

\* C25: when nextCard runs after the last card of a round and a card was answered
\* incorrectly in the round, the new remainingCards is an arrangement of exactly
\* the cards answered incorrectly in the round, each once, and incorrectlyAnswered
\* becomes empty.
C25_NewRoundIsTheMissed ==
  [][(TimerFires /\ Len(remainingCards) = 1 /\ incorrectlyAnswered # <<>>) =>
       /\ remainingCards' \in Perms(incorrectlyAnswered)
       /\ incorrectlyAnswered' = <<>>
    ]_vars

\* C26: a card graded correct in the session (a card of correctlyAnswered) is not
\* in incorrectlyAnswered, and it is the current card or a card of remainingCards
\* only while it is still shown with the verdict of that answer.
C26_CorrectNeverAgain ==
  \A c \in Range(correctlyAnswered) :
    /\ c \notin Range(incorrectlyAnswered)
    /\ (c = currentCard \/ c \in Range(remainingCards)) =>
          (c = currentCard /\ answerState = "correct")

\* the session is as the init effect seeds it: no answer has been taken in it, so a
\* nextCard that is pending was scheduled before the session was reset
FreshSession ==
  /\ WriteMounted
  /\ remainingCards \in shuffleArray(cards)
  /\ currentCard = FirstOrNull(remainingCards)
  /\ incorrectlyAnswered = <<>>
  /\ correctlyAnswered = <<>>
  /\ inputValue = <<>>
  /\ answerState = "unanswered"

\* C27: a nextCard that was pending when the session was reset leaves the reset
\* session alone: when it fires in the freshly seeded session, remainingCards,
\* incorrectlyAnswered and currentCard stay those of the seed.
C27_StaleAdvanceIgnored ==
  [][(TimerFires /\ FreshSession) =>
       UNCHANGED <<remainingCards, incorrectlyAnswered, currentCard>>]_vars

\* C28: after "Keep learning this" (a confirmation that adds no card to known) the
\* card that was current is in learning, whether it came from unseen or was in
\* learning already.
C28_KeepLearningStays ==
  [][(handleNextStep /\ known' = known) => learnCurrentCard \in Range(learning')]_vars

\* C29: after a confirmation the next current card is a card of the learning pile
\* as the confirmation leaves it when that pile is not empty, and otherwise the
\* first card of unseen (none when unseen is empty).
C29_NextFromLearning ==
  [][handleNextStep =>
       IF learning' # <<>> THEN learnCurrentCard' \in Range(learning')
       ELSE learnCurrentCard' = FirstOrNull(unseen')]_vars

\* what a confirmation with the self-report wasKnown can lead to, as a function of
\* the pools and the current card alone: <<unseen, learning, known, currentCard>>
ConfirmationResults(wasKnown) ==
  LET card == learnCurrentCard
      inPile == card \in Range(learning)
      newUnseen == SelectSeq(unseen, LAMBDA c : c # card)
      rest == SelectSeq(learning, LAMBDA c : c # card)
      newLearning == IF inPile THEN rest
                     ELSE IF wasKnown THEN learning ELSE Append(learning, card)
      source == IF inPile THEN rest ELSE learning
      nexts == IF source # <<>> THEN Range(source) ELSE {FirstOrNull(newUnseen)}
  IN  {<<newUnseen, newLearning, IF wasKnown THEN Append(known, card) ELSE known, n>> :
         n \in nexts}

\* C30: whichever option was selected, a confirmation leads to exactly the pools
\* and next current cards that the self-report, the pools, the current card and
\* the shuffle allow: both self-reports can be given, each of their results can
\* be reached, and no other result can.
C30_SelectionIgnored ==
  (LearnQuestionShown /\ isPostAnswer /\ BagCardinality(fetches) < MaxFetches) =>
     /\ \A wasKnown \in BOOLEAN : \A result \in ConfirmationResults(wasKnown) :
          ENABLED (handleNextStep /\ <<unseen', learning', known', learnCurrentCard'>> = result)
     /\ ~ENABLED (handleNextStep /\ <<unseen', learning', known', learnCurrentCard'>>
                                     \notin UNION {ConfirmationResults(w) : w \in BOOLEAN})
\* a wrong option is selected and "I knew this" can be pressed
C30_Witness ==
  /\ LearnQuestionShown
  /\ isPostAnswer
  /\ selectedAnswer # <<>>
  /\ selectedAnswer # <<Term(learnCurrentCard)>>
  /\ BagCardinality(fetches) < MaxFetches
  /\ ENABLED (handleNextStep /\ known' = Append(known, learnCurrentCard))

\* C31: a step that records a selection is taken only when none is recorded, and
\* it leaves unseen, learning, known and the current card alone; the confirmation
\* can be given only in the post-answer state, which holds exactly while a
\* selection is recorded; every step that ends the post-answer state clears the
\* selection.
C31_TwoStepProtocol ==
  [][/\ (selectedAnswer' # <<>> /\ selectedAnswer' # selectedAnswer) =>
          /\ selectedAnswer = <<>>
          /\ ~isPostAnswer
          /\ isPostAnswer'
          /\ UNCHANGED <<unseen, learning, known, learnCurrentCard>>
     /\ isPostAnswer <=> (selectedAnswer # <<>>)
     /\ handleNextStep => isPostAnswer
     /\ (isPostAnswer /\ ~isPostAnswer') => selectedAnswer' = <<>>
    ]_vars
\* an answer is selected for a card presented after a confirmation
C31_Witness ==
  /\ LearnQuestionShown
  /\ isPostAnswer
  /\ selectedAnswer # <<>>
  /\ Len(known) + Len(learning) > 0

\* opts lists, in some order, the term of card and the terms of k different other
\* cards of the run's cards prop
IsOwnTermAndOthers(opts, card, k) ==
  /\ Len(opts) = k + 1
  /\ \E wrong \in [1..k -> Range(mapCards) \ {card}] :
       /\ \A i, j \in 1..k : i # j => wrong[i] # wrong[j]
       /\ BagOfSeq(opts) =
            BagOfSeq(<<mapTerms[card]>> \o [i \in 1..k |-> mapTerms[wrong[i]]])

\* C32: the map callback returns a question for every card and index of every
\* cards prop; a multiple-choice question lists the term of its card and the terms
\* of min(3, N - 1) different other cards, so 4 options when N >= 4 and N options
\* when N is 2 or 3; for N = 0 the question list is empty and for N = 1 it is one
\* free-text question.
C32_DistractorCount ==
  LET n == Len(mapCards) IN
  /\ (mapCard # Null /\ mapResult = <<>>) =>
       QuestionsFor(mapCard, mapIndex, mapCards, mapTerms) # {}
  /\ mapResult # <<>> =>
       LET q == mapResult[1] IN
       /\ q.card = mapCard
       /\ q.type \in {"mc", "written"}
       /\ q.type = "mc" =>
            /\ n >= 2
            /\ IsOwnTermAndOthers(q.options, mapCard, Min2(3, n - 1))
            /\ Len(q.options) = IF n >= 4 THEN 4 ELSE n
  /\ n = 0 => generateQuestions(mapCards, mapTerms) = {<<>>}
  /\ n = 1 => generateQuestions(mapCards, mapTerms) =
                 {<<[card |-> 1, type |-> "written", options |-> <<>>]>>}
\* a multiple-choice question built from a cards prop of five cards
C32_Witness ==
  /\ Len(mapCards) = 5
  /\ mapResult # <<>>
  /\ mapResult[1].type = "mc"
  /\ Len(mapResult[1].options) = 4

\* C33: a click on a tile while another selection stands that is not the other
\* tile of the selected card changes incorrectSelection (to the clicked tile) and
\* nothing else of the game: matchedIds, selectedItem, the grid and the times stay;
\* the 500 ms timeout clears incorrectSelection and selectedItem and leaves
\* matchedIds alone.
C33_MismatchIsTransient ==
  [][/\ \A item \in BagToSet(gridItems) :
          ( /\ handleItemClick(item)
            /\ selectedItem # <<>>
            /\ ~(CardIdOf(item) = CardIdOf(selectedItem) /\ TypeOf(item) # TypeOf(selectedItem)) )
          => /\ incorrectSelection' = item
             /\ UNCHANGED <<matchedIds, selectedItem, gridItems, startTime, endTime,
                            bestTime, isNewRecord>>
     /\ ResetSelection =>
          /\ incorrectSelection' = <<>>
          /\ selectedItem' = <<>>
          /\ UNCHANGED <<matchedIds, gridItems, startTime, endTime, bestTime, isNewRecord>>
    ]_vars
\* the mark of a mismatched click is shown and its timeout is pending
C33_Witness ==
  /\ MatchMounted
  /\ selectedItem # <<>>
  /\ incorrectSelection # <<>>
  /\ ~IsMatch(selectedItem, incorrectSelection)
  /\ pendingResets > 0

\* C34: the timeout of a mismatched click leaves alone a selection made after
\* the click, in the same game or in the game set up since: when such a timeout
\* fires, the tile that is selected stays selected.
C34_StaleResetIgnored ==
  [][(ResetSelection /\ staleResets > 0) => UNCHANGED selectedItem]_vars

\* C35: at most one generateFlashcards call is pending at any time, and isLoading
\* (which disables the Create Set button) is true while a call is pending.
C35_OneRequestInFlight ==
  LET inFlight == requests.mounted + requests.orphaned IN
  /\ inFlight <= 1
  /\ inFlight > 0 => isLoading

\* C36: while a card is presented, the loading state always ends with a non-empty
\* option list, whether generateMcqOptions resolved with the AI reply or with its
\* fallback; and whenever a card is presented and the options are not loading,
\* the option list is not empty.
C36_OptionsAlwaysArrive ==
  /\ []((LearnQuestionShown /\ ~isLoadingOptions) => options # <<>>)
  /\ (LearnQuestionShown /\ isLoadingOptions) ~> (~isLoadingOptions /\ options # <<>>)
\* the fallback found no other term: the card's own term is the only option, and
\* it can be selected
C36_Witness ==
  /\ LearnQuestionShown
  /\ ~isLoadingOptions
  /\ options = <<Term(learnCurrentCard)>>
  /\ ENABLED handleAnswer

\* C37: the number of entries of correctlyAnswered never exceeds the number of
\* cards of the snapshot WriteMode is rendered with.
C37_ProgressBound ==
  WriteMounted => Len(correctlyAnswered) <= Len(cards)

\* the confirmations given since the session was seeded: one per card that was
\* made current, short of the card that is current
Confirmations ==
  BagCardinality(presented) - (IF learnCurrentCard = Null THEN 0 ELSE 1)

\* C38: in a session no card is made current more than twice, so at most 2N
\* confirmations are given in a session over N cards, and after 2N confirmations
\* the session is at the results screen.
C38_AtMostTwicePerCard ==
  LearnMounted =>
    /\ \A c \in BagToSet(presented) : c \in Range(cards) /\ CopiesIn(c, presented) <= 2
    /\ Confirmations <= 2 * Len(cards)
    /\ Confirmations = 2 * Len(cards) => learnCurrentCard = Null
\* "Keep learning this" was pressed for every card each time: the results screen
\* after 2N confirmations
C38_Witness ==
  /\ LearnMounted
  /\ Len(cards) = NumCards
  /\ learnCurrentCard = Null
  /\ known = <<>>
  /\ Confirmations = 2 * Len(cards)

\* C39: whenever a card is presented with the options not loading and not empty,
\* the term of that card is one of the options.
C39_OptionsOfCurrentCard ==
  (LearnQuestionShown /\ ~isLoadingOptions /\ options # <<>>) =>
     Term(learnCurrentCard) \in Range(options)

\* C40: whenever the deck on display is not empty, currentIndex is an integer
\* from 0 to the deck length minus 1.
C40_IndexInDeck ==
  DeckShown => (currentIndex # NaN /\ currentIndex >= 0 /\ currentIndex < Len(shuffledDeck))

====
